---- MODULE Spec2Model ----
(***************************************************************************)
(* Attendance status engine, task workflow and notification fan-out of the *)
(* EMS backend, modelled from src/controllers/attendanceController.js,     *)
(* src/controllers/taskController.js and the mongoose schemas.             *)
(*                                                                         *)
(* A time-of-day string "hh:mm:ss AM/PM" is the record of its four parts;  *)
(* a null / missing time is NoTime.  A nullable string is the string       *)
(* itself or NullStr.                                                      *)
(***************************************************************************)
EXTENDS Integers, Sequences, FiniteSets, TLC

VARIABLES
    att,      \* the Attendance collection, in insertion order
    today,    \* index in Dates of the current civil date (getISTDate)
    clock,    \* index in ClockTimes of the current time of day (getISTTime)
    io,       \* whether a socket.io server object is available to the handlers
    resp,     \* outcome of the most recent handler invocation
    sent,     \* Notification documents created by the most recent handler
    tasks,    \* the Task collection, in insertion order
    tcalls,   \* task workflow handlers in flight, suspended at an await
    calls,    \* attendance request handlers in flight, suspended at an await
    fnArg,    \* inputs of the rule-engine functions (rule specification)
    fnOut,    \* last result of a rule-engine function (rule specification)
    down,     \* the receivers for whom Notification.create currently throws
    notifications  \* the Notification collection, in insertion order

vars == <<att, today, clock, io, resp, sent, tasks, tcalls, calls, fnArg, fnOut, down, notifications>>

(***************************************************************************)
(* Values                                                                  *)
(***************************************************************************)
NoTime == [hh |-> 0, mm |-> 0, ss |-> 0, period |-> "null"]
NullStr == "null"

T(h, m, s, p) == [hh |-> h, mm |-> m, ss |-> s, period |-> p]

\* every hour of the 12-hour clock, with minutes and seconds at and around
\* the edges of a minute and of an hour
MinuteSamples == {0, 1, 30, 59}
SecondSamples == {0, 1, 59}
DenseTimes ==
    {T(h, m, s, p) : h \in 1..12, m \in MinuteSamples, s \in SecondSamples,
                     p \in {"AM", "PM"}}

CoarseTimes ==
    {NoTime, T(12, 0, 0, "AM"), T(9, 59, 59, "AM"), T(10, 30, 0, "AM"),
     T(12, 15, 0, "PM"), T(5, 0, 0, "PM"), T(6, 1, 0, "PM")}

PunchInStatuses == {"Present", "Late", "Half Day", "Absent"}
Statuses == PunchInStatuses \cup {"Leave", "Auto Punch Out"}
ManualStatuses == {"Absent", "Leave"}

\* the civil dates and the instants of a day at which the handlers run
Dates == <<"2024-01-01", "2024-01-02">>
ClockTimes == <<T(10, 30, 0, "AM"), T(6, 30, 0, "PM")>>

\* identities known to the User collection, with their role
Users == {"u1", "u2", "u3", "u4"}
UserRole == [u \in Users |->
    CASE u = "u1" -> "admin" [] u = "u2" -> "manager" [] OTHER -> "employee"]
AttEmployees == {"u3", "u4"}

\* the request handlers that can be in flight at once
Handlers == {"h1", "h2"}

MaxRecords == 2
MaxTasks == 1
MaxNotes == 1
MaxCreated == 2
MaxReceivers == 3
MaxNotifs == 2

(***************************************************************************)
(* Time helpers                                                            *)
(***************************************************************************)
getHoursFromTime_noMidnight(timeStr) ==
    IF timeStr = NoTime THEN 25
    ELSE IF timeStr.period = "PM" /\ timeStr.hh # 12 THEN timeStr.hh + 12
    ELSE timeStr.hh

getHoursFromTime(timeStr) ==
    IF timeStr = NoTime THEN 25
    ELSE IF timeStr.period = "PM" /\ timeStr.hh # 12 THEN timeStr.hh + 12
    ELSE IF timeStr.period = "AM" /\ timeStr.hh = 12 THEN 0
    ELSE timeStr.hh

parseTimeToDate_noMidnight(timeStr) ==
    LET h == IF timeStr.period = "PM" /\ timeStr.hh # 12 THEN timeStr.hh + 12
             ELSE timeStr.hh
    IN  (h * 3600 + timeStr.mm * 60 + timeStr.ss) * 1000

\* milliseconds since midnight of the fixed day 2000-01-01
parseTimeToDate(timeStr) ==
    LET h == IF timeStr.period = "PM" /\ timeStr.hh # 12 THEN timeStr.hh + 12
             ELSE IF timeStr.period = "AM" /\ timeStr.hh = 12 THEN 0
             ELSE timeStr.hh
    IN  (h * 3600 + timeStr.mm * 60 + timeStr.ss) * 1000

calculateWorkingHours(punchIn, punchOut) ==
    IF punchIn = NoTime \/ punchOut = NoTime THEN "0h"
    ELSE LET diffMs == parseTimeToDate(punchOut) - parseTimeToDate(punchIn)
             totalSeconds == diffMs \div 1000
             h == totalSeconds \div 3600
             m == (totalSeconds % 3600) \div 60
         IN  IF diffMs <= 0 THEN "0h"
             ELSE ToString(h) \o "h " \o ToString(m) \o "m"

(***************************************************************************)
(* Status rule engine                                                      *)
(***************************************************************************)
calculateStatusFromPunchIn(punchIn) ==
    LET hour == getHoursFromTime(punchIn)
    IN  IF hour >= 10 /\ hour < 11 THEN "Present"
        ELSE IF hour >= 11 /\ hour < 14 THEN "Late"
        ELSE IF hour >= 14 /\ hour < 15 THEN "Half Day"
        ELSE "Absent"

applyPunchOutRule(punchOut, currentStatus) ==
    LET hour == getHoursFromTime(punchOut)
        minutes == punchOut.mm
    IN  IF hour > 18 \/ (hour = 18 /\ minutes > 0) THEN "Absent"
        ELSE currentStatus

(***************************************************************************)
(* Rule specification: the rule-engine functions applied to drawn inputs   *)
(***************************************************************************)
NoOut == [fn |-> "none", val |-> NullStr]
NoArg == [t |-> NoTime, u |-> NoTime, st |-> "Present"]

ApplyStatusRule ==
    /\ fnOut' = [fn |-> "calculateStatusFromPunchIn",
                 val |-> calculateStatusFromPunchIn(fnArg.t)]
    /\ UNCHANGED <<att, today, clock, io, resp, sent, calls, tasks, tcalls, fnArg, down, notifications>>

ApplyPunchOutRule ==
    /\ fnOut' = [fn |-> "applyPunchOutRule",
                 val |-> applyPunchOutRule(fnArg.t, fnArg.st)]
    /\ UNCHANGED <<att, today, clock, io, resp, sent, calls, tasks, tcalls, fnArg, down, notifications>>

ApplyWorkingHours ==
    /\ fnOut' = [fn |-> "calculateWorkingHours",
                 val |-> calculateWorkingHours(fnArg.u, fnArg.t)]
    /\ UNCHANGED <<att, today, clock, io, resp, sent, calls, tasks, tcalls, fnArg, down, notifications>>

\* calculateWorkingHours with the dense samples as punch-in and the coarse
\* ones (null included) as punch-out
ApplyWorkingHoursFrom ==
    /\ fnOut' = [fn |-> "calculateWorkingHours from t",
                 val |-> calculateWorkingHours(fnArg.t, fnArg.u)]
    /\ UNCHANGED <<att, today, clock, io, resp, sent, calls, tasks, tcalls, fnArg, down, notifications>>

NoResp == [op |-> "none", code |-> 0]

\* res.status(code).json(...): the status code and the kind of answer it stands for
Reply(op, code, kind) == [op |-> op, code |-> code, kind |-> kind]

NoRec ==
    [employeeId |-> "", date |-> "", punch_in |-> NoTime, punch_out |-> NoTime,
     status |-> "Present", workingHours |-> NullStr]
NoTask ==
    [status |-> "Not Started", progressStatus |-> "Not Started", assignedTo |-> <<>>,
     createdBy |-> "", reviewers |-> <<>>, notes |-> <<>>, title |-> "t1",
     deleted |-> FALSE, taskId |-> 0]
IdleTaskCall ==
    [op |-> "none", pc |-> "idle", id |-> 0, by |-> "", loaded |-> NoTask,
     doc |-> NoTask, pre |-> "", code |-> 0, staleBy |-> ""]
IdleCall ==
    [op |-> "none", pc |-> "idle", e |-> "", d |-> "", idx |-> 0,
     loaded |-> NoRec, rec |-> NoRec, code |-> 0, active |-> <<>>]

InitStore ==
    /\ att = <<>>
    /\ today = 1
    /\ clock = 1
    /\ io \in BOOLEAN
    /\ resp = NoResp
    /\ sent = <<>>
    /\ notifications = <<>>
    /\ calls = [c \in Handlers |-> IdleCall]
    /\ tasks = <<>>
    /\ tcalls = [c \in Handlers |-> IdleTaskCall]

InitRules ==
    /\ InitStore
    /\ down = {}
    /\ io = TRUE
    /\ fnArg \in [t : DenseTimes, u : CoarseTimes, st : Statuses]
    /\ fnOut = NoOut

NextRules ==
    \/ ApplyStatusRule
    \/ ApplyPunchOutRule
    \/ ApplyWorkingHours
    \/ ApplyWorkingHoursFrom

SpecRules == InitRules /\ [][NextRules]_vars

(***************************************************************************)
(* The Attendance collection and the notification helper                   *)
(***************************************************************************)
Supervisors == <<"u1", "u2">>   \* User.find({role in admin/hr/manager}), in store order

\* Notification.create({receiverId, senderId, title, ...}) with the schema defaults
Notif(receiver, sender, title) ==
    [receiverId |-> receiver, senderId |-> sender, title |-> title,
     isRead |-> FALSE, readAt |-> NullStr, isDeleted |-> FALSE]

RECURSIVE NotifyEach_abortOnFailure(_, _, _)
NotifyEach_abortOnFailure(receivers, sender, title) ==
    IF receivers = <<>> \/ Head(receivers) \in down THEN <<>>
    ELSE <<Notif(Head(receivers), sender, title)>>
         \o NotifyEach_abortOnFailure(Tail(receivers), sender, title)

\* targets.forEach: each receiver's create runs in its own try / catch, a
\* create that throws is logged and leaves no document
RECURSIVE NotifyEach(_, _, _)
NotifyEach(receivers, sender, title) ==
    IF receivers = <<>> THEN <<>>
    ELSE (IF Head(receivers) \in down THEN <<>>
          ELSE <<Notif(Head(receivers), sender, title)>>)
         \o NotifyEach(Tail(receivers), sender, title)

\* sendNotification: one document per receiver of the list
sendNotification(receiverIds, senderId, title) ==
    NotifyEach(receiverIds, senderId, title)

FindOne_none(s, e, d) == 0

\* Attendance.findOne({employeeId, date}): index of the first match, 0 if none
FindOne(s, e, d) ==
    IF \E i \in 1..Len(s) : s[i].employeeId = e /\ s[i].date = d
    THEN CHOOSE i \in 1..Len(s) :
            /\ s[i].employeeId = e /\ s[i].date = d
            /\ \A j \in 1..(i - 1) : ~(s[j].employeeId = e /\ s[j].date = d)
    ELSE 0

StoreInsert_noIndex(s, rec) == [ok |-> TRUE, att |-> Append(s, rec)]

\* insert under the unique index {employeeId, date}
StoreInsert(s, rec) ==
    IF \E i \in 1..Len(s) : s[i].employeeId = rec.employeeId /\ s[i].date = rec.date
    THEN [ok |-> FALSE, att |-> s]
    ELSE [ok |-> TRUE, att |-> Append(s, rec)]

\* new Attendance({employeeId, name, date}) with the schema defaults
NewAttendance(e, d) ==
    [employeeId |-> e, date |-> d, punch_in |-> NoTime, punch_out |-> NoTime,
     status |-> "Present", workingHours |-> NullStr]

Now == ClockTimes[clock]
Today == Dates[today]

(***************************************************************************)
(* Attendance handlers, each run to completion                             *)
(***************************************************************************)
createAttendance(e) ==
    LET existing == FindOne(att, e, Today)
        rec == [NewAttendance(e, Today) EXCEPT
                   !.punch_in = Now, !.status = calculateStatusFromPunchIn(Now)]
        ins == StoreInsert(att, rec)
    IN  IF existing # 0
        THEN /\ resp' = Reply("createAttendance", 400, "Conflict")
             /\ sent' = <<>>
             /\ UNCHANGED att
        ELSE /\ Len(att) < MaxRecords
             /\ att' = ins.att
             /\ resp' = IF ins.ok THEN Reply("createAttendance", 201, "")
                        ELSE Reply("createAttendance", 500, "ServerError")
             /\ sent' = IF ins.ok /\ io
                        THEN sendNotification(Supervisors, NullStr, "Punch In")
                        ELSE <<>>

logoutAttendance(e) ==
    LET i == FindOne(att, e, Today)
    IN  IF i = 0 \/ att[i].punch_out # NoTime
        THEN /\ resp' = Reply("logoutAttendance", 404, "NotFound")
             /\ sent' = <<>>
             /\ UNCHANGED att
        ELSE /\ att' = [att EXCEPT ![i] =
                    [@ EXCEPT !.punch_out = Now,
                              !.workingHours = calculateWorkingHours(att[i].punch_in, Now),
                              !.status = applyPunchOutRule(Now, att[i].status)]]
             /\ resp' = Reply("logoutAttendance", 200, "")
             /\ sent' = IF io THEN sendNotification(Supervisors, NullStr, "Punch Out")
                        ELSE <<>>

Marked_statusOnly(rec, status) == [rec EXCEPT !.status = status]

\* the fields markAttendance assigns before record.save()
Marked(rec, status) ==
    IF status \in {"Absent", "Leave"}
    THEN [rec EXCEPT !.status = status, !.punch_in = NoTime, !.punch_out = NoTime,
                     !.workingHours = NullStr]
    ELSE [rec EXCEPT !.status = status]

markAttendance(by, e, d, status) ==
    LET i == FindOne(att, e, d)
        ins == StoreInsert(att, Marked(NewAttendance(e, d), status))
    IN  /\ IF i = 0
           THEN /\ Len(att) < MaxRecords
                /\ att' = ins.att
                /\ resp' = [op |-> "markAttendance",
                            code |-> IF ins.ok THEN 200 ELSE 500, isNew |-> TRUE]
           ELSE /\ att' = [att EXCEPT ![i] = Marked(att[i], status)]
                /\ resp' = [op |-> "markAttendance", code |-> 200, isNew |-> FALSE]
        /\ sent' = IF io /\ resp'.code = 200
                   THEN sendNotification(<<e>>, by, "Attendance Updated")
                   ELSE <<>>

\* a field that the request body of an edit does not carry
Unset == "(unset)"
UnsetTime == [hh |-> 0, mm |-> 0, ss |-> 0, period |-> Unset]

\* Object.assign(record, req.body)
Assigned(rec, body) ==
    [rec EXCEPT
        !.punch_in = IF body.punch_in # UnsetTime THEN body.punch_in ELSE @,
        !.punch_out = IF body.punch_out # UnsetTime THEN body.punch_out ELSE @,
        !.status = IF body.status # Unset THEN body.status ELSE @]

\* the recalculation of updateAttendance after Object.assign
Recalculated(rec) ==
    LET r1 == IF rec.punch_in # NoTime
              THEN [rec EXCEPT !.status = calculateStatusFromPunchIn(rec.punch_in)]
              ELSE rec
    IN  IF r1.punch_in # NoTime /\ r1.punch_out # NoTime
        THEN [r1 EXCEPT
                 !.workingHours = calculateWorkingHours(r1.punch_in, r1.punch_out),
                 !.status = applyPunchOutRule(r1.punch_out, r1.status)]
        ELSE r1

\* the admin edit of the record with _id i
updateAttendance(by, i, body) ==
    IF i \notin 1..Len(att)
    THEN /\ resp' = Reply("updateAttendance", 404, "NotFound")
         /\ sent' = <<>>
         /\ UNCHANGED att
    ELSE /\ att' = [att EXCEPT ![i] = Recalculated(Assigned(@, body))]
         /\ resp' = Reply("updateAttendance", 200, "")
         /\ sent' = IF io
                    THEN sendNotification(<<att[i].employeeId>>, by,
                                          "Attendance Record Modified")
                    ELSE <<>>

(***************************************************************************)
(* Auto punch-out sweep                                                    *)
(***************************************************************************)
CutoffTime == T(6, 1, 0, "PM")

ActiveMatch_anyPunchOut(rec, d) == rec.date = d

\* the filter {date, punch_out: null} of the sweep's find
ActiveMatch(rec, d) == rec.date = d /\ rec.punch_out = NoTime

\* Attendance.find({date, punch_out: null}): the matching indices, in store order
RECURSIVE ActiveFrom(_, _, _)
ActiveFrom(s, d, i) ==
    IF i > Len(s) THEN <<>>
    ELSE (IF ActiveMatch(s[i], d) THEN <<i>> ELSE <<>>) \o ActiveFrom(s, d, i + 1)

AutoClose_keepStatus(rec) ==
    [rec EXCEPT !.punch_out = CutoffTime,
                !.workingHours = calculateWorkingHours(rec.punch_in, CutoffTime)]

\* the body of the sweep's loop up to record.save()
AutoClose(rec) ==
    [rec EXCEPT !.punch_out = CutoffTime,
                !.workingHours = calculateWorkingHours(rec.punch_in, CutoffTime),
                !.status = "Auto Punch Out"]

\* The loop over activeRecords.  failAt is the position in activeRecords of the
\* record whose save() throws (0: every save succeeds); the throw leaves the
\* loop for the handler's outer catch.
RECURSIVE SweepLoop(_, _, _, _, _)
SweepLoop(s, active, k, failAt, notify) ==
    IF k > Len(active) THEN [att |-> s, sent |-> <<>>, ok |-> TRUE, closed |-> 0]
    ELSE IF k = failAt THEN [att |-> s, sent |-> <<>>, ok |-> FALSE, closed |-> 0]
    ELSE LET i == active[k]
             rest == SweepLoop([s EXCEPT ![i] = AutoClose(s[i])], active, k + 1,
                               failAt, notify)
             mine == IF notify
                     THEN <<Notif(s[i].employeeId, NullStr, "Auto Punch Out")>>
                     ELSE <<>>
         IN  [rest EXCEPT !.sent = mine \o @, !.closed = @ + 1]

Sweep(s, d, failAt, notify) == SweepLoop(s, ActiveFrom(s, d, 1), 1, failAt, notify)

autoPunchOutCron(failAt) ==
    LET r == Sweep(att, Today, failAt, io)
    IN  /\ failAt <= Len(ActiveFrom(att, Today, 1))
        /\ att' = r.att
        /\ sent' = r.sent
        /\ resp' = [op |-> "autoPunchOutCron", code |-> IF r.ok THEN 200 ELSE 500,
                    date |-> Today, closed |-> r.closed]

(***************************************************************************)
(* The clock                                                               *)
(***************************************************************************)
Tick ==
    /\ clock < Len(ClockTimes)
    /\ clock' = clock + 1
    /\ UNCHANGED <<att, today, io, resp, sent, calls, tasks, tcalls, fnArg, fnOut, down, notifications>>

NextDay ==
    /\ today < Len(Dates)
    /\ today' = today + 1
    /\ clock' = 1
    /\ UNCHANGED <<att, io, resp, sent, calls, tasks, tcalls, fnArg, fnOut, down, notifications>>

(***************************************************************************)
(* Attendance specification: handlers run one at a time                    *)
(***************************************************************************)
InitAtt ==
    /\ InitStore
    /\ down = {}
    /\ fnArg = NoArg
    /\ fnOut = NoOut

AttFrame == UNCHANGED <<today, clock, io, calls, tasks, tcalls, fnArg, fnOut, down, notifications>>

PunchIn == \E e \in AttEmployees : createAttendance(e)
PunchOut == \E e \in AttEmployees : logoutAttendance(e)
MarkManual ==
    \E e \in AttEmployees, d \in 1..Len(Dates), st \in ManualStatuses :
        markAttendance("u1", e, Dates[d], st)
ReconcileDay == \E failAt \in 0..MaxRecords : autoPunchOutCron(failAt)

NextAtt ==
    \/ (PunchIn /\ AttFrame)
    \/ (PunchOut /\ AttFrame)
    \/ (MarkManual /\ AttFrame)
    \/ (ReconcileDay /\ AttFrame)
    \/ Tick
    \/ NextDay

SpecAtt == InitAtt /\ [][NextAtt]_vars

(***************************************************************************)
(* Attendance specification of one civil date: PunchIn, PunchOut and       *)
(* MarkManual (for the current or the next date) as the day goes by        *)
(***************************************************************************)
NextAttDay ==
    \/ (PunchIn /\ AttFrame)
    \/ (PunchOut /\ AttFrame)
    \/ (MarkManual /\ AttFrame)
    \/ Tick

SpecAttDay == InitAtt /\ [][NextAttDay]_vars

(***************************************************************************)
(* Attendance specification with the admin edit: the records of the        *)
(* current date under PunchIn, PunchOut, MarkManual and updateAttendance   *)
(***************************************************************************)
EditTimes == {UnsetTime, NoTime, T(10, 30, 0, "AM"), T(6, 0, 30, "PM")}
EditStatuses == {Unset, "Leave"}
EditBodies == [punch_in : EditTimes, punch_out : EditTimes, status : EditStatuses]

MarkManualToday ==
    \E e \in AttEmployees, st \in ManualStatuses : markAttendance("u1", e, Today, st)
AdminEdit ==
    \E i \in 1..MaxRecords, body \in EditBodies : updateAttendance("u1", i, body)

NextAttEdit ==
    \/ (PunchIn /\ AttFrame)
    \/ (PunchOut /\ AttFrame)
    \/ (MarkManualToday /\ AttFrame)
    \/ (AdminEdit /\ AttFrame)
    \/ Tick

SpecAttEdit == InitAtt /\ [][NextAttEdit]_vars

(***************************************************************************)
(* Attendance specification with interleaving: a handler suspends at each  *)
(* await on the store, and other handlers run in between.                  *)
(***************************************************************************)
\* record.save() of a loaded document: the paths whose value was changed
\* since loading are written to the stored document, the others are not
SaveDoc(stored, loaded, local) ==
    [stored EXCEPT
        !.punch_in = IF local.punch_in # loaded.punch_in THEN local.punch_in ELSE @,
        !.punch_out = IF local.punch_out # loaded.punch_out THEN local.punch_out ELSE @,
        !.status = IF local.status # loaded.status THEN local.status ELSE @,
        !.workingHours = IF local.workingHours # loaded.workingHours
                         THEN local.workingHours ELSE @]

PendingInserts ==
    Cardinality({c \in Handlers : calls[c].pc = "insert"})

\* createAttendance up to the end of `await Attendance.findOne`
createAttendanceFind(c, e) ==
    LET existing == FindOne(att, e, Today)
    IN  /\ calls[c].pc = "idle"
        /\ IF existing # 0
           THEN /\ calls' = [calls EXCEPT ![c] =
                       [IdleCall EXCEPT !.op = "createAttendance", !.pc = "done",
                                        !.e = e, !.d = Today, !.code = 400]]
                /\ sent' = <<>>
           ELSE /\ Len(att) + PendingInserts < MaxRecords
                /\ calls' = [calls EXCEPT ![c] =
                       [IdleCall EXCEPT
                           !.op = "createAttendance", !.pc = "insert",
                           !.e = e, !.d = Today,
                           !.rec = [NewAttendance(e, Today) EXCEPT
                                       !.punch_in = Now,
                                       !.status = calculateStatusFromPunchIn(Now)]]]
                /\ UNCHANGED sent
        /\ UNCHANGED <<att, resp>>

\* createAttendance from `await Attendance.create` to the response
createAttendanceCreate(c) ==
    LET ins == StoreInsert(att, calls[c].rec)
        code == IF ins.ok THEN 201 ELSE 500
    IN  /\ calls[c].op = "createAttendance" /\ calls[c].pc = "insert"
        /\ att' = ins.att
        /\ calls' = [calls EXCEPT ![c].pc = "done", ![c].code = code]
        /\ UNCHANGED resp
        /\ sent' = IF ins.ok /\ io
                   THEN sendNotification(Supervisors, NullStr, "Punch In")
                   ELSE <<>>

\* markAttendance up to the end of `await Attendance.findOne`
markAttendanceFind(c, e, d, status) ==
    LET i == FindOne(att, e, d)
        loaded == IF i = 0 THEN NewAttendance(e, d) ELSE att[i]
    IN  /\ calls[c].pc = "idle"
        /\ i = 0 => Len(att) + PendingInserts < MaxRecords
        /\ calls' = [calls EXCEPT ![c] =
               [IdleCall EXCEPT
                   !.op = "markAttendance", !.e = e, !.d = d, !.idx = i,
                   !.pc = IF i = 0 THEN "insert" ELSE "save",
                   !.loaded = loaded, !.rec = Marked(loaded, status)]]
        /\ UNCHANGED <<att, resp, sent>>

\* markAttendance from `await record.save()` to the response
markAttendanceSave(c, by) ==
    LET ins == StoreInsert(att, calls[c].rec)
        isNew == calls[c].pc = "insert"
        code == IF isNew /\ ~ins.ok THEN 500 ELSE 200
    IN  /\ calls[c].op = "markAttendance" /\ calls[c].pc \in {"insert", "save"}
        /\ att' = IF isNew THEN ins.att
                  ELSE [att EXCEPT ![calls[c].idx] =
                           SaveDoc(@, calls[c].loaded, calls[c].rec)]
        /\ calls' = [calls EXCEPT ![c].pc = "done", ![c].code = code]
        /\ UNCHANGED resp
        /\ sent' = IF io /\ code = 200
                   THEN sendNotification(<<calls[c].e>>, by, "Attendance Updated")
                   ELSE <<>>

\* the handler has answered; its slot serves the next request
Return(c) ==
    /\ calls[c].pc = "done"
    /\ calls' = [calls EXCEPT ![c] = IdleCall]
    /\ UNCHANGED <<att, resp, sent>>

AttConcFrame == UNCHANGED <<today, clock, io, tasks, tcalls, fnArg, fnOut, down, notifications>>

NextAttConc ==
    \/ \E c \in Handlers, e \in AttEmployees :
          createAttendanceFind(c, e) /\ AttConcFrame
    \/ \E c \in Handlers :
          createAttendanceCreate(c) /\ AttConcFrame
    \/ \E c \in Handlers, e \in AttEmployees, d \in 1..Len(Dates),
          st \in ManualStatuses :
          markAttendanceFind(c, e, Dates[d], st)
              /\ AttConcFrame
    \/ \E c \in Handlers :
          markAttendanceSave(c, "u1") /\ AttConcFrame
    \/ \E c \in Handlers :
          Return(c) /\ AttConcFrame

SpecAttConc == InitAtt /\ [][NextAttConc]_vars

(***************************************************************************)
(* The sweep and PunchOut interleaved: the sweep suspends in its find and  *)
(* in each record.save() of its loop, logoutAttendance in its findOne and  *)
(* in its save.  The sessions they work on are opened by PunchIn, run to   *)
(* completion.                                                             *)
(***************************************************************************)
\* logoutAttendance up to the end of `await Attendance.findOne`
logoutAttendanceFind(c, e) ==
    LET i == FindOne(att, e, Today)
    IN  /\ calls[c].pc = "idle"
        /\ IF i = 0 \/ att[i].punch_out # NoTime
           THEN calls' = [calls EXCEPT ![c] =
                   [IdleCall EXCEPT !.op = "logoutAttendance", !.pc = "done",
                                    !.e = e, !.d = Today, !.code = 404]]
           ELSE calls' = [calls EXCEPT ![c] =
                   [IdleCall EXCEPT
                       !.op = "logoutAttendance", !.pc = "save",
                       !.e = e, !.d = Today, !.idx = i, !.loaded = att[i],
                       !.rec = [att[i] EXCEPT
                                   !.punch_out = Now,
                                   !.workingHours =
                                       calculateWorkingHours(att[i].punch_in, Now),
                                   !.status = applyPunchOutRule(Now, att[i].status)]]]
        /\ sent' = <<>>
        /\ UNCHANGED <<att, resp>>

\* logoutAttendance from `await record.save()` to the response
logoutAttendanceSave(c) ==
    /\ calls[c].op = "logoutAttendance" /\ calls[c].pc = "save"
    /\ att' = [att EXCEPT ![calls[c].idx] =
                  SaveDoc(@, calls[c].loaded, calls[c].rec)]
    /\ calls' = [calls EXCEPT ![c].pc = "done", ![c].code = 200]
    /\ sent' = IF io THEN sendNotification(Supervisors, NullStr, "Punch Out")
               ELSE <<>>
    /\ UNCHANGED resp

\* autoPunchOutCron up to the end of `await Attendance.find`: the documents
\* of the open sessions as they are read
autoPunchOutFind(c) ==
    LET found == ActiveFrom(att, Today, 1)
    IN  /\ calls[c].pc = "idle"
        /\ calls' = [calls EXCEPT ![c] =
              [IdleCall EXCEPT
                  !.op = "autoPunchOutCron", !.d = Today,
                  !.pc = IF found = <<>> THEN "done" ELSE "loop",
                  !.code = 200,
                  !.active = [k \in 1..Len(found) |->
                                 [idx |-> found[k], loaded |-> att[found[k]]]]]]
        /\ sent' = <<>>
        /\ UNCHANGED <<att, resp>>

\* one turn of the sweep's loop: the fields are set on the document read by
\* the find and record.save() writes them
autoPunchOutSave(c) ==
    LET cur == Head(calls[c].active)
        rest == Tail(calls[c].active)
    IN  /\ calls[c].op = "autoPunchOutCron" /\ calls[c].pc = "loop"
        /\ att' = [att EXCEPT ![cur.idx] =
                      SaveDoc(@, cur.loaded, AutoClose(cur.loaded))]
        /\ calls' = [calls EXCEPT ![c].active = rest,
                                  ![c].pc = IF rest = <<>> THEN "done" ELSE "loop"]
        /\ sent' = IF io
                   THEN <<Notif(cur.loaded.employeeId, NullStr, "Auto Punch Out")>>
                   ELSE <<>>
        /\ UNCHANGED resp

NextSweepConc ==
    \/ (PunchIn /\ AttFrame)
    \/ \E c \in Handlers, e \in AttEmployees :
          logoutAttendanceFind(c, e) /\ AttConcFrame
    \/ \E c \in Handlers : logoutAttendanceSave(c) /\ AttConcFrame
    \/ \E c \in Handlers : autoPunchOutFind(c) /\ AttConcFrame
    \/ \E c \in Handlers : autoPunchOutSave(c) /\ AttConcFrame
    \/ \E c \in Handlers : Return(c) /\ AttConcFrame
    \/ Tick

SpecSweepConc == InitAtt /\ [][NextSweepConc]_vars

(***************************************************************************)
(* Task workflow                                                           *)
(***************************************************************************)
Range(q) == {q[i] : i \in 1..Len(q)}

Without_keep(q, x) == q

\* q.filter((id) => id !== x)
RECURSIVE Without(_, _)
Without(q, x) ==
    IF q = <<>> THEN <<>>
    ELSE (IF Head(q) = x THEN <<>> ELSE <<Head(q)>>) \o Without(Tail(q), x)

Admins == <<"u1">>              \* User.find({role: "admin"}), in store order
AssigneeLists == {<<>>, <<"u3">>, <<"u3", "u4">>}
ReviewerLists == {<<"u2", "u4">>}
ReviewActions == {"approve", "revert", "reject"}
Comments == {NullStr, "fix X"}

\* the numbers generateTaskId can draw
TaskIdCandidates == 1..(MaxTasks + 1)

\* Task.findOne({taskId}) finds no task
FreeTaskId(n) == \A i \in 1..Len(tasks) : tasks[i].taskId # n

\* generateTaskId run to completion with no other handler in between: it
\* redraws until the candidate is free; the handlers run one at a time take
\* the least free candidate
generateTaskId ==
    CHOOSE n \in TaskIdCandidates :
        FreeTaskId(n) /\ \A m \in TaskIdCandidates : (m < n) => ~FreeTaskId(m)

AdminTargets_all(u) == Admins

\* the admins other than the caller
AdminTargets(u) == Without(Admins, u)

\* addTask: role check, assignee validation, reviewers, save, notifications
addTask(u, assignedTo, additionalReviewers, notifyAssignee) ==
    LET reviewers == <<u>> \o Without(additionalReviewers, u)
        newTask == [NoTask EXCEPT !.assignedTo = assignedTo, !.createdBy = u,
                                  !.reviewers = reviewers,
                                  !.taskId = generateTaskId]
    IN  IF UserRole[u] \notin {"admin", "manager"}
        THEN /\ resp' = Reply("addTask", 403, "Forbidden")
             /\ sent' = <<>>
             /\ UNCHANGED tasks
        ELSE IF assignedTo = <<>>
        THEN /\ resp' = Reply("addTask", 400, "ValidationError")
             /\ sent' = <<>>
             /\ UNCHANGED tasks
        ELSE /\ Len(tasks) < MaxTasks
             /\ tasks' = Append(tasks, newTask)
             /\ resp' = Reply("addTask", 201, "")
             /\ sent' = (IF notifyAssignee
                         THEN sendNotification(assignedTo, u, "New Task Assigned")
                         ELSE <<>>)
                        \o sendNotification(AdminTargets(u), u,
                                            "New Task Created in System")

CanAccept_onlyNotStarted(task) == task.status = "Not Started"

CanAccept_alsoCompleted(task) ==
    task.status \in {"Not Started", "Reverted", "Completed"}

\* the state guard of acceptTask
CanAccept(task) == task.status \in {"Not Started", "Reverted"}

Accepted_statusOnly(task) == [task EXCEPT !.status = "In Progress"]

\* the fields acceptTask assigns before task.save()
Accepted(task) ==
    [task EXCEPT !.progressStatus = "Pending", !.status = "In Progress"]

\* the fields submitTaskForReview assigns before task.save()
Submitted(task) ==
    [task EXCEPT !.progressStatus = "In Review", !.status = "In Review"]

\* the fields reviewTask assigns before task.save()
Reviewed(task, action, comment) ==
    IF action = "approve"
    THEN [task EXCEPT !.progressStatus = "Completed", !.status = "Completed"]
    ELSE [task EXCEPT !.progressStatus = "Reverted", !.status = "Reverted",
                      !.notes = IF comment # NullStr THEN Append(@, comment) ELSE @]

IsAssignee_anyone(task, u) == TRUE

\* task.assignedTo.some((assignee) => assignee.toString() === userId)
IsAssignee(task, u) == u \in Range(task.assignedTo)

\* Task.findById(id) returns a document
Found(id) == id \in 1..Len(tasks) /\ ~tasks[id].deleted

acceptTask(id, u) ==
    IF ~Found(id)
    THEN /\ resp' = Reply("acceptTask", 404, "NotFound")
         /\ sent' = <<>> /\ UNCHANGED tasks
    ELSE IF ~IsAssignee(tasks[id], u)
    THEN /\ resp' = Reply("acceptTask", 403, "Forbidden")
         /\ sent' = <<>> /\ UNCHANGED tasks
    ELSE IF ~CanAccept(tasks[id])
    THEN /\ resp' = Reply("acceptTask", 400, "InvalidTransition")
         /\ sent' = <<>> /\ UNCHANGED tasks
    ELSE /\ tasks' = [tasks EXCEPT ![id] = Accepted(@)]
         /\ sent' = sendNotification(<<tasks[id].createdBy>> \o tasks[id].reviewers,
                                     u, "Task Started")
         /\ resp' = Reply("acceptTask", 200, "")

submitTaskForReview(id, u) ==
    IF ~Found(id)
    THEN /\ resp' = Reply("submitTaskForReview", 404, "NotFound")
         /\ sent' = <<>> /\ UNCHANGED tasks
    ELSE IF ~IsAssignee(tasks[id], u)
    THEN /\ resp' = Reply("submitTaskForReview", 403, "Forbidden")
         /\ sent' = <<>> /\ UNCHANGED tasks
    ELSE IF tasks[id].status # "In Progress"
    THEN /\ resp' = Reply("submitTaskForReview", 400, "InvalidTransition")
         /\ sent' = <<>> /\ UNCHANGED tasks
    ELSE /\ tasks' = [tasks EXCEPT ![id] = Submitted(@)]
         /\ sent' = sendNotification(<<tasks[id].createdBy>> \o tasks[id].reviewers,
                                     u, "Task Submitted for Review")
         /\ resp' = Reply("submitTaskForReview", 200, "")

reviewTask(id, u, action, comment) ==
    IF UserRole[u] \notin {"admin", "manager"}
    THEN /\ resp' = Reply("reviewTask", 403, "Forbidden")
         /\ sent' = <<>> /\ UNCHANGED tasks
    ELSE IF ~Found(id)
    THEN /\ resp' = Reply("reviewTask", 404, "NotFound")
         /\ sent' = <<>> /\ UNCHANGED tasks
    ELSE IF tasks[id].status # "In Review"
    THEN /\ resp' = Reply("reviewTask", 400, "InvalidTransition")
         /\ sent' = <<>> /\ UNCHANGED tasks
    ELSE IF tasks[id].createdBy # u /\ u \notin Range(tasks[id].reviewers)
    THEN /\ resp' = Reply("reviewTask", 403, "Forbidden")
         /\ sent' = <<>> /\ UNCHANGED tasks
    ELSE IF action \notin {"approve", "revert"}
    THEN /\ resp' = Reply("reviewTask", 400, "InvalidAction")
         /\ sent' = <<>> /\ UNCHANGED tasks
    ELSE /\ (action = "revert" /\ comment # NullStr)
                => Len(tasks[id].notes) < MaxNotes
         /\ sent' = sendNotification(tasks[id].assignedTo, u,
                        IF action = "approve" THEN "Task Approved"
                        ELSE "Task Reverted")
         /\ tasks' = [tasks EXCEPT ![id] = Reviewed(@, action, comment)]
         /\ resp' = Reply("reviewTask", 200, "")

IsCreator_orReviewer(task, u) ==
    task.createdBy = u \/ u \in Range(task.reviewers)

\* task.createdBy.toString() === req.user.id
IsCreator(task, u) == task.createdBy = u

\* findByIdAndUpdate(id, updateData): the fields of the body are written
Updated(task, body) ==
    [task EXCEPT !.title = IF body.title # Unset THEN body.title ELSE @,
                 !.status = IF body.status # Unset THEN body.status ELSE @,
                 !.createdBy = IF body.createdBy # Unset THEN body.createdBy ELSE @]

\* Task.findByIdAndDelete(id): the document is gone from the collection
Removed == [NoTask EXCEPT !.deleted = TRUE]

updateTask(id, u, body) ==
    IF ~Found(id)
    THEN /\ resp' = Reply("updateTask", 404, "NotFound")
         /\ sent' = <<>> /\ UNCHANGED tasks
    ELSE IF ~IsCreator(tasks[id], u)
    THEN /\ resp' = Reply("updateTask", 403, "Forbidden")
         /\ sent' = <<>> /\ UNCHANGED tasks
    ELSE /\ tasks' = [tasks EXCEPT ![id] = Updated(@, body)]
         /\ sent' = IF io
                    THEN sendNotification(tasks[id].assignedTo, u, "Task Updated")
                    ELSE <<>>
         /\ resp' = Reply("updateTask", 200, "")

deleteTask(id, u) ==
    IF ~Found(id)
    THEN /\ resp' = Reply("deleteTask", 404, "NotFound")
         /\ sent' = <<>> /\ UNCHANGED tasks
    ELSE IF ~IsCreator(tasks[id], u)
    THEN /\ resp' = Reply("deleteTask", 403, "Forbidden")
         /\ sent' = <<>> /\ UNCHANGED tasks
    ELSE /\ tasks' = [tasks EXCEPT ![id] = Removed]
         /\ sent' = IF io
                    THEN sendNotification(tasks[id].assignedTo, u, "Task Deleted")
                    ELSE <<>>
         /\ resp' = Reply("deleteTask", 200, "")

(***************************************************************************)
(* Task specification: handlers run one at a time                          *)
(***************************************************************************)
TaskIds == 1..MaxTasks

Create ==
    \E u \in Users, a \in AssigneeLists, r \in ReviewerLists, n \in BOOLEAN :
        addTask(u, a, r, n)
Accept == \E id \in TaskIds, u \in Users : acceptTask(id, u)
SubmitForReview == \E id \in TaskIds, u \in Users : submitTaskForReview(id, u)
Review ==
    \E id \in TaskIds, u \in Users, a \in ReviewActions, c \in Comments :
        reviewTask(id, u, a, c)

TaskFrame == UNCHANGED <<att, today, clock, io, calls, tcalls, fnArg, fnOut, down, notifications>>

NextTask ==
    \/ (Create /\ TaskFrame)
    \/ (Accept /\ TaskFrame)
    \/ (SubmitForReview /\ TaskFrame)
    \/ (Review /\ TaskFrame)

\* the task workflow handlers do not read the socket server object
InitTask == InitAtt /\ io = TRUE

SpecTask == InitTask /\ [][NextTask]_vars

(***************************************************************************)
(* Task specification with the creator's edit and delete                   *)
(***************************************************************************)
TaskBodies ==
    [title : {Unset, "t2"}, status : {Unset, "Completed"}, createdBy : {Unset}]

\* tasks created by the admin or by the manager, with one assignee and two
\* additional reviewers, one of them the manager
CreateOwned ==
    \E u \in {"u1", "u2"} : addTask(u, <<"u3">>, <<"u2", "u4">>, FALSE)
ReviewNoComment ==
    \E id \in TaskIds, u \in Users, a \in {"approve", "revert"} :
        reviewTask(id, u, a, NullStr)

Update == \E id \in TaskIds, u \in Users, body \in TaskBodies : updateTask(id, u, body)
Delete == \E id \in TaskIds, u \in Users : deleteTask(id, u)

NextTaskEdit ==
    \/ (CreateOwned /\ TaskFrame)
    \/ (Accept /\ TaskFrame)
    \/ (SubmitForReview /\ TaskFrame)
    \/ (ReviewNoComment /\ TaskFrame)
    \/ (Update /\ TaskFrame)
    \/ (Delete /\ TaskFrame)

SpecTaskEdit == InitTask /\ [][NextTaskEdit]_vars

(***************************************************************************)
(* Task specification with edits whose body may also carry createdBy       *)
(***************************************************************************)
OwnerBodies ==
    TaskBodies \cup {[title |-> Unset, status |-> Unset, createdBy |-> "u3"]}

UpdateAny ==
    \E id \in TaskIds, u \in Users, body \in OwnerBodies : updateTask(id, u, body)

NextTaskOwner ==
    \/ (CreateOwned /\ TaskFrame)
    \/ (Accept /\ TaskFrame)
    \/ (SubmitForReview /\ TaskFrame)
    \/ (ReviewNoComment /\ TaskFrame)
    \/ (UpdateAny /\ TaskFrame)

SpecTaskOwner == InitTask /\ [][NextTaskOwner]_vars

(***************************************************************************)
(* Task creation specification: addTask over callers of every role, with   *)
(* and without assignees and additional reviewers, and the creator's       *)
(* delete                                                                  *)
(***************************************************************************)
AdditionalReviewerLists == {<<>>, <<"u2">>, <<"u2", "u4">>, <<"u1", "u2">>}

CreateAny ==
    \E u \in Users, a \in AssigneeLists, r \in AdditionalReviewerLists,
       n \in BOOLEAN :
        addTask(u, a, r, n)

NextTaskCreate ==
    \/ (CreateAny /\ TaskFrame)
    \/ (Delete /\ TaskFrame)

SpecTaskCreate == InitAtt /\ [][NextTaskCreate]_vars

(***************************************************************************)
(* Task specification with interleaving: a workflow handler suspends       *)
(* between its findById and its save, and other handlers run in between.   *)
(***************************************************************************)
\* task.save() of a loaded document: only the modified paths are written
SaveTask(stored, loaded, doc) ==
    [stored EXCEPT
        !.status = IF doc.status # loaded.status THEN doc.status ELSE @,
        !.progressStatus = IF doc.progressStatus # loaded.progressStatus
                           THEN doc.progressStatus ELSE @,
        !.notes = IF doc.notes # loaded.notes THEN doc.notes ELSE @]

\* a refusal: the handler answers without having written
Answer(c, op, id, u, code) ==
    tcalls' = [tcalls EXCEPT ![c] =
        [IdleTaskCall EXCEPT !.op = op, !.pc = "done", !.code = code]]

Suspend(c, op, id, u, doc) ==
    tcalls' = [tcalls EXCEPT ![c] =
        [IdleTaskCall EXCEPT !.op = op, !.pc = "save", !.id = id, !.by = u,
                             !.loaded = tasks[id], !.doc = doc,
                             !.pre = tasks[id].status]]

\* acceptTask up to the start of `await task.save()`
acceptTaskFind(c, id, u) ==
    /\ tcalls[c].pc \in {"idle", "done"}
    /\ IF ~Found(id) THEN Answer(c, "acceptTask", id, u, 404)
       ELSE IF ~IsAssignee(tasks[id], u) THEN Answer(c, "acceptTask", id, u, 403)
       ELSE IF ~CanAccept(tasks[id]) THEN Answer(c, "acceptTask", id, u, 400)
       ELSE Suspend(c, "acceptTask", id, u, Accepted(tasks[id]))
    /\ sent' = <<>>
    /\ UNCHANGED <<tasks, resp>>

\* submitTaskForReview up to the start of `await task.save()`
submitTaskFind(c, id, u) ==
    /\ tcalls[c].pc \in {"idle", "done"}
    /\ IF ~Found(id) THEN Answer(c, "submitTaskForReview", id, u, 404)
       ELSE IF ~IsAssignee(tasks[id], u)
       THEN Answer(c, "submitTaskForReview", id, u, 403)
       ELSE IF tasks[id].status # "In Progress"
       THEN Answer(c, "submitTaskForReview", id, u, 400)
       ELSE Suspend(c, "submitTaskForReview", id, u, Submitted(tasks[id]))
    /\ sent' = <<>>
    /\ UNCHANGED <<tasks, resp>>

\* reviewTask up to the start of `await task.save()`; the assignees are
\* notified before the save
reviewTaskFind(c, id, u, action, comment) ==
    LET ok == /\ UserRole[u] \in {"admin", "manager"}
              /\ Found(id)
              /\ tasks[id].status = "In Review"
              /\ (tasks[id].createdBy = u \/ u \in Range(tasks[id].reviewers))
              /\ action \in {"approve", "revert"}
    IN  /\ tcalls[c].pc \in {"idle", "done"}
        /\ IF UserRole[u] \notin {"admin", "manager"}
           THEN Answer(c, "reviewTask", id, u, 403)
           ELSE IF ~Found(id) THEN Answer(c, "reviewTask", id, u, 404)
           ELSE IF tasks[id].status # "In Review"
           THEN Answer(c, "reviewTask", id, u, 400)
           ELSE IF tasks[id].createdBy # u /\ u \notin Range(tasks[id].reviewers)
           THEN Answer(c, "reviewTask", id, u, 403)
           ELSE IF action \notin {"approve", "revert"}
           THEN Answer(c, "reviewTask", id, u, 400)
           ELSE /\ (action = "revert" /\ comment # NullStr)
                       => Len(tasks[id].notes) < MaxNotes
                /\ Suspend(c, "reviewTask", id, u,
                           Reviewed(tasks[id], action, comment))
        /\ sent' = IF ok
                   THEN sendNotification(tasks[id].assignedTo, u,
                            IF action = "approve" THEN "Task Approved"
                            ELSE "Task Reverted")
                   ELSE <<>>
        /\ UNCHANGED <<tasks, resp>>

\* from `await task.save()` to the response.  staleBy records, for the other
\* handlers suspended on the same task, that the document they loaded has
\* since been rewritten by this one.
taskSave(c) ==
    LET id == tcalls[c].id
    IN  /\ tcalls[c].pc = "save"
        /\ tasks' = [tasks EXCEPT ![id] = SaveTask(@, tcalls[c].loaded, tcalls[c].doc)]
        /\ tcalls' = [h \in Handlers |->
               IF h = c
               THEN [tcalls[c] EXCEPT !.pc = "done", !.code = 200,
                                      !.loaded = NoTask, !.doc = NoTask]
               ELSE IF tcalls[h].pc = "save" /\ tcalls[h].id = id
                       /\ tcalls[h].staleBy = ""
               THEN [tcalls[h] EXCEPT !.staleBy = c]
               ELSE tcalls[h]]
        /\ sent' = IF tcalls[c].op = "reviewTask" THEN <<>>
                   ELSE sendNotification(
                            <<tasks[id].createdBy>> \o tasks[id].reviewers,
                            tcalls[c].by,
                            IF tcalls[c].op = "acceptTask" THEN "Task Started"
                            ELSE "Task Submitted for Review")
        /\ UNCHANGED resp

TaskConcFrame == UNCHANGED <<att, today, clock, io, calls, fnArg, fnOut, down, notifications>>

NextTaskConc ==
    \/ (addTask("u1", <<"u3", "u4">>, <<"u2">>, TRUE)
            /\ UNCHANGED tcalls /\ TaskConcFrame)
    \/ \E c \in Handlers, id \in TaskIds, u \in Users :
          acceptTaskFind(c, id, u) /\ TaskConcFrame
    \/ \E c \in Handlers, id \in TaskIds, u \in Users :
          submitTaskFind(c, id, u) /\ TaskConcFrame
    \/ \E c \in Handlers, id \in TaskIds, u \in Users, a \in ReviewActions,
          m \in Comments :
          reviewTaskFind(c, id, u, a, m) /\ TaskConcFrame
    \/ \E c \in Handlers : taskSave(c) /\ TaskConcFrame

SpecTaskConc == InitTask /\ [][NextTaskConc]_vars

(***************************************************************************)
(* The notification service: notifyUser and notifyManyUsers                *)
(***************************************************************************)
\* the values that mongoose.Types.ObjectId.isValid accepts: the ids of the
\* users and "u9", a well-formed id that no user has
ObjectIds == Users \cup {"u9"}

\* receiver ids of a request: a user's id, a well-formed id of no user, a
\* malformed string and null
ReceiverIds == {"u1", "u9", "bad", NullStr}
ReceiverLists == UNION {[1..n -> ReceiverIds] : n \in 0..MaxReceivers}

IsValidObjectId_any(id) == TRUE

IsValidObjectId(id) == id \in ObjectIds

ValidIds_all(receiverIds) == receiverIds

\* receiverIds.filter((id) => mongoose.Types.ObjectId.isValid(id))
ValidIds(receiverIds) == SelectSeq(receiverIds, IsValidObjectId)

\* what a call of the service gives: the error thrown (null if it returned)
\* and the documents it has persisted
notifyUser(receiverId, senderId, title) ==
    IF ~IsValidObjectId(receiverId)
    THEN [error |-> "InvalidReceiver", docs |-> <<>>]
    ELSE [error |-> NullStr, docs |-> <<Notif(receiverId, senderId, title)>>]

notifyManyUsers(receiverIds, senderId, title) ==
    LET validIds == ValidIds(receiverIds)
    IN  IF Len(validIds) = 0
        THEN [error |-> "NoValidReceivers", docs |-> <<>>]
        ELSE [error |-> NullStr,
              docs |-> [k \in 1..Len(validIds) |->
                           Notif(validIds[k], senderId, title)]]

InitNotify ==
    /\ InitStore
    /\ down = {}
    /\ io = TRUE
    /\ fnArg \in [receiverId : ReceiverIds, receiverIds : ReceiverLists,
                  senderId : {NullStr, "u1"}]
    /\ fnOut = NoOut

NotifyOne ==
    LET r == notifyUser(fnArg.receiverId, fnArg.senderId, "note")
    IN  /\ fnOut' = [fn |-> "notifyUser", val |-> r.error]
        /\ sent' = r.docs
        /\ UNCHANGED <<att, today, clock, io, resp, calls, tasks, tcalls, fnArg, down, notifications>>

NotifyMany ==
    LET r == notifyManyUsers(fnArg.receiverIds, fnArg.senderId, "note")
    IN  /\ fnOut' = [fn |-> "notifyManyUsers", val |-> r.error]
        /\ sent' = r.docs
        /\ UNCHANGED <<att, today, clock, io, resp, calls, tasks, tcalls, fnArg, down, notifications>>

NextNotify ==
    \/ NotifyOne
    \/ NotifyMany

SpecNotify == InitNotify /\ [][NextNotify]_vars

(***************************************************************************)
(* generateTaskId as a loop: each turn draws a suffix and looks it up; a   *)
(* suffix that a task has makes the function call itself again.  Tasks are *)
(* created and driven by other handlers while a call is in its loop.       *)
(***************************************************************************)
GenOutcome_noRetry(n) == [pc |-> "returned", id |-> n]

\* `if (existingTask) return generateTaskId(); return taskId;`
GenOutcome(n) ==
    IF FreeTaskId(n) THEN [pc |-> "returned", id |-> n]
    ELSE [pc |-> "generate", id |-> 0]

\* a call of generateTaskId starts
generateStart(c) ==
    /\ tcalls[c].pc \in {"idle", "returned"}
    /\ tcalls' = [tcalls EXCEPT ![c] =
          [IdleTaskCall EXCEPT !.op = "generateTaskId", !.pc = "generate"]]

\* one turn: Math.random gives n, Task.findOne({taskId}) is awaited
generateDraw(c, n) ==
    /\ tcalls[c].pc = "generate"
    /\ tcalls' = [tcalls EXCEPT ![c].pc = GenOutcome(n).pc,
                                ![c].id = GenOutcome(n).id]

\* a turn that draws a suffix no task has
DrawFree(c) == \E n \in TaskIdCandidates : FreeTaskId(n) /\ generateDraw(c, n)

GenerateFrame ==
    UNCHANGED <<att, today, clock, io, resp, sent, tasks, calls, fnArg, fnOut,
                down, notifications>>

NextGenerate ==
    \/ (CreateOwned /\ TaskFrame)
    \/ (Accept /\ TaskFrame)
    \/ (SubmitForReview /\ TaskFrame)
    \/ \E c \in Handlers : generateStart(c) /\ GenerateFrame
    \/ \E c \in Handlers, n \in TaskIdCandidates :
          generateDraw(c, n) /\ GenerateFrame

SpecGenerate == InitTask /\ [][NextGenerate]_vars

\* Math.random is fair: a call that keeps drawing draws, sooner or later, a
\* suffix that is free
SpecGenerateFair ==
    /\ SpecGenerate
    /\ \A c \in Handlers : WF_vars(DrawFree(c) /\ GenerateFrame)

(***************************************************************************)
(* Attendance requests as they arrive: employeeId and name may be missing  *)
(* from the body of a punch-in, and the body of a manual mark carries any  *)
(* status and possibly no name.  Unset stands for a missing field.         *)
(***************************************************************************)
RawStatuses == {"Absent", "Leave", "Present", "Bogus"}

\* createAttendance from its first line: the test of employeeId and name
createAttendanceReq(employeeId, name) ==
    IF employeeId = Unset \/ name = Unset
    THEN /\ resp' = Reply("createAttendance", 400, "ValidationError")
         /\ sent' = <<>>
         /\ UNCHANGED att
    ELSE createAttendance(employeeId)

\* markAttendance with the body as sent: the handler tests nothing; the
\* schema refuses, at record.save(), a status outside the enum and a new
\* record without the required name, and the catch answers 500
markAttendanceReq(by, e, name, d, status) ==
    IF status \notin Statuses \/ (FindOne(att, e, d) = 0 /\ name = Unset)
    THEN /\ resp' = Reply("markAttendance", 500, "ServerError")
         /\ sent' = <<>>
         /\ UNCHANGED att
    ELSE markAttendance(by, e, d, status)

PunchInRaw ==
    \E employeeId \in AttEmployees \cup {Unset}, name \in {"name", Unset} :
        createAttendanceReq(employeeId, name)
MarkManualRaw ==
    \E e \in AttEmployees, name \in {"name", Unset}, st \in RawStatuses :
        markAttendanceReq("u1", e, name, Today, st)

NextAttInput ==
    \/ (PunchInRaw /\ AttFrame)
    \/ (PunchOut /\ AttFrame)
    \/ (MarkManualRaw /\ AttFrame)
    \/ Tick

SpecAttInput == InitAtt /\ [][NextAttInput]_vars

(***************************************************************************)
(* The receiver's side of the Notification collection: getMyNotifications, *)
(* markAsRead, markAllAsRead and deleteNotification.  A document's _id is  *)
(* its index in `notifications`; 0 stands for a string that is not an      *)
(* ObjectId, an index beyond the collection for the id of no document.     *)
(***************************************************************************)
InboxUsers == {"u3", "u4"}
NotifIds == 0..(MaxNotifs + 1)
IsValidNotifId(id) == id # 0

MatchRead_anyOwner(s, id, u) == id \in 1..Len(s) /\ ~s[id].isDeleted

\* the filter { _id: id, receiverId, isDeleted: false } of markAsRead
MatchRead(s, id, u) ==
    id \in 1..Len(s) /\ s[id].receiverId = u /\ ~s[id].isDeleted

\* the filter { _id: id, receiverId } of deleteNotification
MatchDelete(s, id, u) == id \in 1..Len(s) /\ s[id].receiverId = u

Unread_anyReceiver(rec, u) == ~rec.isRead /\ ~rec.isDeleted

\* the filter { receiverId, isRead: false, isDeleted: false } of markAllAsRead
Unread(rec, u) == rec.receiverId = u /\ ~rec.isRead /\ ~rec.isDeleted

\* $set: { isRead: true, readAt: new Date() }
ReadNow(rec) == [rec EXCEPT !.isRead = TRUE, !.readAt = clock]

markAsRead(u, id) ==
    IF ~IsValidNotifId(id)
    THEN /\ resp' = Reply("markAsRead", 400, "ValidationError")
         /\ UNCHANGED notifications
    ELSE IF ~MatchRead(notifications, id, u)
    THEN /\ resp' = Reply("markAsRead", 404, "NotFound")
         /\ UNCHANGED notifications
    ELSE /\ notifications' = [notifications EXCEPT ![id] = ReadNow(@)]
         /\ resp' = Reply("markAsRead", 200, "")

markAllAsRead(u) ==
    /\ notifications' =
          [i \in 1..Len(notifications) |->
              IF Unread(notifications[i], u) THEN ReadNow(notifications[i])
              ELSE notifications[i]]
    /\ resp' = Reply("markAllAsRead", 200, "")

\* deleteNotification does not test the id: a string that is not an ObjectId
\* makes the query throw a cast error, which the catch answers with 500
deleteNotification(u, id) ==
    IF ~IsValidNotifId(id)
    THEN /\ resp' = Reply("deleteNotification", 500, "ServerError")
         /\ UNCHANGED notifications
    ELSE IF ~MatchDelete(notifications, id, u)
    THEN /\ resp' = Reply("deleteNotification", 404, "NotFound")
         /\ UNCHANGED notifications
    ELSE /\ notifications' = [notifications EXCEPT ![id].isDeleted = TRUE]
         /\ resp' = Reply("deleteNotification", 200, "")

Visible_withDeleted(rec, u, isRead) ==
    /\ rec.receiverId = u
    /\ isRead = "true" => rec.isRead
    /\ isRead = "false" => ~rec.isRead

\* the query { receiverId, isDeleted: false } with the optional isRead filter
Visible(rec, u, isRead) ==
    /\ rec.receiverId = u
    /\ ~rec.isDeleted
    /\ isRead = "true" => rec.isRead
    /\ isRead = "false" => ~rec.isRead

Reverse(q) == [k \in 1..Len(q) |-> q[Len(q) + 1 - k]]
Min(a, b) == IF a < b THEN a ELSE b

\* .sort({ createdAt: -1 }).skip(skip).limit(limit)
Page(q, page, limit) ==
    SubSeq(Reverse(q), (page - 1) * limit + 1, Min(page * limit, Len(q)))

getMyNotifications(u, isRead, page, limit) ==
    LET found == SelectSeq(notifications, LAMBDA rec : Visible(rec, u, isRead))
    IN  /\ resp' = [op |-> "getMyNotifications", code |-> 200,
                    total |-> Len(found), data |-> Page(found, page, limit)]
        /\ UNCHANGED notifications

\* a call of the notification service: its documents join the collection
StoreOne ==
    \E receiverId \in InboxUsers \cup {"bad"} :
        LET r == notifyUser(receiverId, NullStr, "note")
        IN  /\ Len(notifications) + Len(r.docs) <= MaxNotifs
            /\ notifications' = notifications \o r.docs
            /\ sent' = r.docs
            /\ fnOut' = [fn |-> "notifyUser", val |-> r.error]
            /\ UNCHANGED <<att, today, clock, io, resp, calls, tasks, tcalls, fnArg, down>>

StoreMany ==
    \E receiverIds \in {<<"u3", "u4">>, <<"u4", "bad">>, <<"bad">>} :
        LET r == notifyManyUsers(receiverIds, NullStr, "note")
        IN  /\ Len(notifications) + Len(r.docs) <= MaxNotifs
            /\ notifications' = notifications \o r.docs
            /\ sent' = r.docs
            /\ fnOut' = [fn |-> "notifyManyUsers", val |-> r.error]
            /\ UNCHANGED <<att, today, clock, io, resp, calls, tasks, tcalls, fnArg, down>>

InboxFrame ==
    /\ sent' = <<>>
    /\ UNCHANGED <<att, today, clock, io, calls, tasks, tcalls, fnArg, fnOut, down>>

MarkRead == \E u \in InboxUsers, id \in NotifIds : markAsRead(u, id)
MarkAllRead == \E u \in InboxUsers : markAllAsRead(u)
SoftDelete == \E u \in InboxUsers, id \in NotifIds : deleteNotification(u, id)
\* the default page (page 1 of 10) and the second page of pages of one
Pagings == {<<1, 10>>, <<2, 1>>}
ListForReceiver ==
    \E u \in InboxUsers, isRead \in {Unset, "false"}, pg \in Pagings :
        getMyNotifications(u, isRead, pg[1], pg[2])

NextInbox ==
    \/ StoreOne
    \/ StoreMany
    \/ (MarkRead /\ InboxFrame)
    \/ (MarkAllRead /\ InboxFrame)
    \/ (SoftDelete /\ InboxFrame)
    \/ (ListForReceiver /\ InboxFrame)
    \/ Tick

SpecInbox == InitTask /\ [][NextInbox]_vars

(***************************************************************************)
(* Task workflow when task.save() throws: the handler's catch answers 500  *)
(* and the document is not written                                         *)
(***************************************************************************)
\* acceptTask whose `await task.save()` throws: the notification call is
\* after the save and is not reached
acceptTaskSaveFails(id, u) ==
    /\ Found(id)
    /\ IsAssignee(tasks[id], u)
    /\ CanAccept(tasks[id])
    /\ resp' = Reply("acceptTask", 500, "ServerError")
    /\ sent' = <<>>
    /\ UNCHANGED tasks

\* reviewTask whose `await task.save()` throws: both branches have called
\* sendNotification before the save
reviewTaskSaveFails(id, u, action) ==
    /\ UserRole[u] \in {"admin", "manager"}
    /\ Found(id)
    /\ tasks[id].status = "In Review"
    /\ tasks[id].createdBy = u \/ u \in Range(tasks[id].reviewers)
    /\ action \in {"approve", "revert"}
    /\ sent' = sendNotification(tasks[id].assignedTo, u,
                    IF action = "approve" THEN "Task Approved"
                    ELSE "Task Reverted")
    /\ resp' = Reply("reviewTask", 500, "ServerError")
    /\ UNCHANGED tasks

AcceptSaveFails == \E id \in TaskIds, u \in Users : acceptTaskSaveFails(id, u)
ReviewSaveFails ==
    \E id \in TaskIds, u \in Users, a \in {"approve", "revert"} :
        reviewTaskSaveFails(id, u, a)

NextTaskFail ==
    \/ (Create /\ TaskFrame)
    \/ (Accept /\ TaskFrame)
    \/ (SubmitForReview /\ TaskFrame)
    \/ (Review /\ TaskFrame)
    \/ (AcceptSaveFails /\ TaskFrame)
    \/ (ReviewSaveFails /\ TaskFrame)

SpecTaskFail == InitTask /\ [][NextTaskFail]_vars

(***************************************************************************)
(* Attendance and task workflow when Notification.create throws for some   *)
(* receivers: `down` is the set of receivers whose create fails            *)
(***************************************************************************)
Downs == {{}, {"u1"}, {"u3"}}

InitNotifyFail ==
    /\ InitStore
    /\ io = TRUE
    /\ down \in Downs
    /\ fnArg = NoArg
    /\ fnOut = NoOut

\* the attendance store and the task store do not read each other: a
\* behaviour exercises the handlers of one of them
NextNotifyFail ==
    \/ (tasks = <<>> /\ PunchIn /\ AttFrame)
    \/ (tasks = <<>> /\ PunchOut /\ AttFrame)
    \/ (tasks = <<>> /\ MarkManualToday /\ AttFrame)
    \/ (att = <<>> /\ CreateOwned /\ TaskFrame)
    \/ (att = <<>> /\ Accept /\ TaskFrame)
    \/ (att = <<>> /\ SubmitForReview /\ TaskFrame)
    \/ (att = <<>> /\ ReviewNoComment /\ TaskFrame)

SpecNotifyFail == InitNotifyFail /\ [][NextNotifyFail]_vars

(***************************************************************************)
(* Task creation with interleaving: addTask suspends in generateTaskId's   *)
(* findOne and in newTask.save(), and other handlers run in between.       *)
(***************************************************************************)
StoreTask_noIndex(s, doc) == [ok |-> TRUE, tasks |-> Append(s, doc)]

\* insert under the unique index on taskId
StoreTask(s, doc) ==
    IF \E i \in 1..Len(s) : s[i].taskId = doc.taskId
    THEN [ok |-> FALSE, tasks |-> s]
    ELSE [ok |-> TRUE, tasks |-> Append(s, doc)]

PendingTaskInserts ==
    Cardinality({c \in Handlers : tcalls[c].pc = "insert"})

\* addTask up to the end of generateTaskId: candidate n is drawn; when a task
\* has it, generateTaskId calls itself and draws again, otherwise the handler
\* goes on to build the task and suspends in newTask.save()
addTaskGenerate(c, u, n) ==
    /\ tcalls[c].pc \in {"idle", "done", "generate"}
    /\ tcalls[c].pc = "generate" => tcalls[c].by = u
    /\ IF ~FreeTaskId(n)
       THEN tcalls' = [tcalls EXCEPT ![c] =
                [IdleTaskCall EXCEPT !.op = "addTask", !.pc = "generate", !.by = u]]
       ELSE /\ Len(tasks) + PendingTaskInserts < MaxCreated
            /\ tcalls' = [tcalls EXCEPT ![c] =
                   [IdleTaskCall EXCEPT
                       !.op = "addTask", !.pc = "insert", !.by = u, !.id = n,
                       !.doc = [NoTask EXCEPT
                                   !.assignedTo = <<"u3">>, !.createdBy = u,
                                   !.reviewers = <<u>>, !.taskId = n]]]
    /\ sent' = <<>>
    /\ UNCHANGED <<tasks, resp>>

\* addTask from `await newTask.save()` to the response
addTaskSave(c) ==
    LET ins == StoreTask(tasks, tcalls[c].doc)
        u == tcalls[c].by
    IN  /\ tcalls[c].op = "addTask" /\ tcalls[c].pc = "insert"
        /\ tasks' = ins.tasks
        /\ tcalls' = [tcalls EXCEPT ![c].pc = "done",
                                     ![c].code = IF ins.ok THEN 201 ELSE 500,
                                     ![c].doc = NoTask]
        /\ sent' = IF ins.ok
                   THEN sendNotification(AdminTargets(u), u,
                                         "New Task Created in System")
                   ELSE <<>>
        /\ UNCHANGED resp

NextCreateConc ==
    \/ \E c \in Handlers, u \in {"u1", "u2"}, n \in TaskIdCandidates :
          addTaskGenerate(c, u, n) /\ TaskConcFrame
    \/ \E c \in Handlers : addTaskSave(c) /\ TaskConcFrame

SpecCreateConc == InitTask /\ [][NextCreateConc]_vars

(***************************************************************************)
(* Properties of the rule engine                                           *)
(***************************************************************************)
\* seconds since midnight denoted by a 12-hour clock reading
SecondsOfDay(t) ==
    ((t.hh % 12) + (IF t.period = "PM" THEN 12 ELSE 0)) * 3600 + t.mm * 60 + t.ss

\* the punch-in rule table over instants of the day
TableStatus(sec) ==
    CASE 10 * 3600 <= sec /\ sec < 11 * 3600 -> "Present"
      [] 11 * 3600 <= sec /\ sec < 14 * 3600 -> "Late"
      [] 14 * 3600 <= sec /\ sec < 15 * 3600 -> "Half Day"
      [] OTHER -> "Absent"

C3_PunchOutOverride ==
    fnOut.fn = "applyPunchOutRule"
        => fnOut.val = (IF SecondsOfDay(fnArg.t) > 18 * 3600 THEN "Absent"
                        ELSE fnArg.st)

(***************************************************************************)
(* Properties of the sweep                                                 *)
(***************************************************************************)
\* an open session: punched in, not punched out, on date d
OpenSession(rec, d) ==
    rec.date = d /\ rec.punch_in # NoTime /\ rec.punch_out = NoTime

\* "Hh Mm" of the whole minutes from a clock reading to 18:01:00, "0h" if none
ElapsedToCutoff(t) ==
    LET secs == (18 * 3600 + 60) - SecondsOfDay(t)
    IN  IF secs <= 0 THEN "0h"
        ELSE ToString(secs \div 3600) \o "h " \o ToString((secs \div 60) % 60) \o "m"

\* C7: a sweep that completes without error leaves every record of the date
\* that was an open session with punch-out 18:01, the elapsed time from its
\* punch-in to 18:01 as working hours, and status Auto Punch Out.
C7_SweepClosesOpenSessions ==
    [][\A f \in 0..MaxRecords :
          (autoPunchOutCron(f) /\ resp'.code = 200) =>
              \A i \in 1..Len(att) :
                  OpenSession(att[i], Today) =>
                      /\ att'[i].punch_out = T(6, 1, 0, "PM")
                      /\ att'[i].workingHours = ElapsedToCutoff(att[i].punch_in)
                      /\ att'[i].status = "Auto Punch Out"
                      /\ att'[i].punch_in = att[i].punch_in]_vars

\* C7 witness: a completed sweep closed a session opened at 10:30:00 AM.
C7_Witness ==
    /\ resp.op = "autoPunchOutCron" /\ resp.code = 200 /\ resp.closed >= 1
    /\ \E i \in 1..Len(att) :
          /\ att[i].date = resp.date
          /\ att[i].punch_in = T(10, 30, 0, "AM")
          /\ att[i].punch_out = T(6, 1, 0, "PM")
          /\ att[i].workingHours = "7h 31m"
          /\ att[i].status = "Auto Punch Out"

\* C8: the sweep changes only open sessions of its date; every other record
\* (a manual Absent / Leave mark, a record of another date) is left as it was.
C8_SweepFrame ==
    [][\A f \in 0..MaxRecords :
          autoPunchOutCron(f) =>
              /\ Len(att') = Len(att)
              /\ \A i \in 1..Len(att) :
                    ~OpenSession(att[i], Today) => att'[i] = att[i]]_vars

\* C9: a sweep run right after a completed sweep of the same date changes no
\* record and creates no notification.
C9_SweepIdempotent ==
    [][\A f \in 0..MaxRecords :
          (/\ resp.op = "autoPunchOutCron" /\ resp.code = 200 /\ resp.date = Today
           /\ autoPunchOutCron(f))
              => (att' = att /\ sent' = <<>> /\ resp'.code = 200)]_vars

\* C9 witness: a sweep found nothing to close on a date an earlier sweep closed.
C9_Witness ==
    /\ resp.op = "autoPunchOutCron" /\ resp.code = 200 /\ resp.closed = 0
    /\ resp.date = Today
    /\ \E i \in 1..Len(att) :
          att[i].date = Today /\ att[i].status = "Auto Punch Out"

\* C10: when the save of one record fails during the sweep, every other open
\* session of the date is still closed with punch-out 18:01 and status
\* Auto Punch Out.
C10_SweepIsolation ==
    [][\A f \in 1..MaxRecords :
          autoPunchOutCron(f) =>
              \A i \in 1..Len(att) :
                  (OpenSession(att[i], Today) /\ i # ActiveFrom(att, Today, 1)[f]) =>
                      /\ att'[i].punch_out = T(6, 1, 0, "PM")
                      /\ att'[i].status = "Auto Punch Out"]_vars
(***************************************************************************)
(* Properties of the attendance handlers                                   *)
(***************************************************************************)
\* the number of records of the store for a key
KeyCount(s, e, d) ==
    Cardinality({i \in 1..Len(s) : s[i].employeeId = e /\ s[i].date = d})

\* C11: PunchIn for a key that already has a record (from a PunchIn or from a
\* MarkManual) is answered Conflict and changes no record; a PunchIn right
\* after a successful PunchIn of the same employee on the same date is
\* answered Conflict.
C11_PunchInRejectsDuplicate ==
    [][\A e \in AttEmployees :
          (resp'.op = "createAttendance" /\ createAttendance(e)) =>
              /\ KeyCount(att, e, Today) > 0 =>
                    (resp'.code = 400 /\ resp'.kind = "Conflict" /\ att' = att)
              /\ (/\ resp.op = "createAttendance" /\ resp.code = 201
                  /\ att[Len(att)].employeeId = e /\ att[Len(att)].date = Today)
                    => (resp'.kind = "Conflict" /\ att' = att)
              /\ resp'.code = 201 => KeyCount(att, e, Today) = 0]_vars

\* C11 witness: PunchIn was answered Conflict while the only record of the
\* store is a manual Leave mark.
C11_Witness ==
    /\ resp.op = "createAttendance" /\ resp.kind = "Conflict"
    /\ Len(att) = 1
    /\ att[1].status = "Leave" /\ att[1].punch_in = NoTime

\* C12: PunchOut with no record for (employee, today) is answered NotFound;
\* with a record that already has a punch-out it is answered Conflict; both
\* leave the store unchanged; it succeeds only on a record with no punch-out.
C12_PunchOutFailures ==
    [][\A e \in AttEmployees :
          logoutAttendance(e) =>
              LET i == FindOne(att, e, Today)
              IN  /\ i = 0 => (resp'.kind = "NotFound" /\ att' = att)
                  /\ (i # 0 /\ att[i].punch_out # NoTime)
                        => (resp'.kind = "Conflict" /\ att' = att)
                  /\ resp'.code = 200 => (i # 0 /\ att[i].punch_out = NoTime)]_vars

\* "Hh Mm" of the whole hours and remaining whole minutes from one clock
\* reading to another of the same day, "0h" when none or when one is missing
WorkingDuration(punchIn, punchOut) ==
    LET secs == SecondsOfDay(punchOut) - SecondsOfDay(punchIn)
    IN  IF punchIn = NoTime \/ punchOut = NoTime THEN "0h"
        ELSE IF secs <= 0 THEN "0h"
        ELSE ToString(secs \div 3600) \o "h " \o ToString((secs \div 60) % 60) \o "m"

\* C13: the working duration is "0h" when the punch-out is at or before the
\* punch-in on the same-day clock or when either is missing, and otherwise
\* "Hh Mm" of punch-out minus punch-in with the seconds truncated.
C13_WorkingDuration ==
    /\ fnOut.fn = "calculateWorkingHours"
          => fnOut.val = WorkingDuration(fnArg.u, fnArg.t)
    /\ fnOut.fn = "calculateWorkingHours from t"
          => fnOut.val = WorkingDuration(fnArg.t, fnArg.u)

\* C13 witness: 10:30:00 AM to 05:00:00 PM gave "6h 30m".
C13_Witness ==
    /\ fnOut.fn = "calculateWorkingHours"
    /\ fnArg.u = T(10, 30, 0, "AM") /\ fnArg.t = T(5, 0, 0, "PM")
    /\ fnOut.val = "6h 30m"

\* C14: MarkManual with Absent or Leave creates the record of the key when
\* there is none and updates it when there is one; afterwards that record has
\* the given status and null punch-in, punch-out and working hours, the key
\* has exactly one record and every other record is as before.
C14_MarkManualUpserts ==
    [][\A e \in AttEmployees, d \in 1..Len(Dates), st \in ManualStatuses :
          (resp'.op = "markAttendance" /\ markAttendance("u1", e, Dates[d], st)) =>
              /\ resp'.code = 200
              /\ resp'.isNew = (KeyCount(att, e, Dates[d]) = 0)
              /\ Len(att') = (IF resp'.isNew THEN Len(att) + 1 ELSE Len(att))
              /\ KeyCount(att', e, Dates[d]) = 1
              /\ \A k \in 1..Len(att') :
                    IF att'[k].employeeId = e /\ att'[k].date = Dates[d]
                    THEN /\ att'[k].status = st
                         /\ att'[k].punch_in = NoTime
                         /\ att'[k].punch_out = NoTime
                         /\ att'[k].workingHours = NullStr
                         /\ k <= Len(att) =>
                               (att[k].employeeId = e /\ att[k].date = Dates[d])
                    ELSE k <= Len(att) /\ att'[k] = att[k]]_vars

\* C14 witness: MarkManual updated an existing record; the store holds one
\* record, marked Leave, with no times.
C14_Witness ==
    /\ resp.op = "markAttendance" /\ resp.code = 200 /\ ~resp.isNew
    /\ Len(att) = 1
    /\ att[1].status = "Leave" /\ att[1].punch_in = NoTime
    /\ att[1].punch_out = NoTime /\ att[1].workingHours = NullStr

\* C15: every record with a punch-in and a status other than Auto Punch Out
\* has the status of the punch-in rule table for its punch-in, replaced by
\* Absent exactly when it has a punch-out after 18:00:00.
C15_StatusIsRuleOfTimes ==
    \A i \in 1..Len(att) :
        (att[i].punch_in # NoTime /\ att[i].status # "Auto Punch Out")
            => att[i].status =
                  (IF att[i].punch_out # NoTime
                      /\ SecondsOfDay(att[i].punch_out) > 18 * 3600
                   THEN "Absent"
                   ELSE TableStatus(SecondsOfDay(att[i].punch_in)))

(***************************************************************************)
(* Properties of the store under interleaving                              *)
(***************************************************************************)
\* C4: there is at most one attendance record per (employeeId, date), and of
\* the PunchIn calls in flight for one key at most one has succeeded.
C4_OneRecordPerKey ==
    /\ \A i, j \in 1..Len(att) :
          (att[i].employeeId = att[j].employeeId /\ att[i].date = att[j].date)
              => i = j
    /\ \A c1, c2 \in Handlers :
          (/\ calls[c1].op = "createAttendance" /\ calls[c1].code = 201
           /\ calls[c2].op = "createAttendance" /\ calls[c2].code = 201
           /\ calls[c1].e = calls[c2].e /\ calls[c1].d = calls[c2].d)
              => c1 = c2

\* C4 witness: two PunchIn calls for one key both passed the find; one created
\* the record and the other was refused by the unique index.
C4_Witness ==
    \E c1, c2 \in Handlers :
        /\ calls[c1].op = "createAttendance" /\ calls[c1].code = 201
        /\ calls[c2].op = "createAttendance" /\ calls[c2].code = 500
        /\ calls[c1].e = calls[c2].e /\ calls[c1].d = calls[c2].d
(***************************************************************************)
(* Properties of the task workflow                                         *)
(***************************************************************************)
\* who the transition table lets drive a workflow operation
MayReview(task, u) ==
    /\ UserRole[u] \in {"admin", "manager"}
    /\ (task.createdBy = u \/ u \in Range(task.reviewers))

ReviewTarget(action) == IF action = "approve" THEN "Completed" ELSE "Reverted"

\* C1: Accept succeeds only from Not Started or Reverted and sets In Progress;
\* SubmitForReview succeeds only from In Progress and sets In Review;
\* Review(approve) / Review(revert) succeed only from In Review and set
\* Completed / Reverted.  Attempted from any other status the operation does
\* not succeed and leaves the task unchanged, and the caller entitled to the
\* operation is answered InvalidTransition.
C1_TransitionTable ==
    [][\A id \in 1..Len(tasks), u \in Users :
          /\ acceptTask(id, u) =>
                /\ resp'.code = 200 =>
                      /\ tasks[id].status \in {"Not Started", "Reverted"}
                      /\ tasks'[id].status = "In Progress"
                /\ tasks[id].status \notin {"Not Started", "Reverted"} =>
                      /\ resp'.code # 200
                      /\ tasks' = tasks
                      /\ IsAssignee(tasks[id], u) => resp'.kind = "InvalidTransition"
          /\ submitTaskForReview(id, u) =>
                /\ resp'.code = 200 =>
                      /\ tasks[id].status = "In Progress"
                      /\ tasks'[id].status = "In Review"
                /\ tasks[id].status # "In Progress" =>
                      /\ resp'.code # 200
                      /\ tasks' = tasks
                      /\ IsAssignee(tasks[id], u) => resp'.kind = "InvalidTransition"
          /\ \A a \in {"approve", "revert"}, m \in Comments :
                reviewTask(id, u, a, m) =>
                    /\ resp'.code = 200 =>
                          /\ tasks[id].status = "In Review"
                          /\ tasks'[id].status = ReviewTarget(a)
                    /\ tasks[id].status # "In Review" =>
                          /\ resp'.code # 200
                          /\ tasks' = tasks
                          /\ MayReview(tasks[id], u)
                                => resp'.kind = "InvalidTransition"]_vars

\* C1 witness: an assignee's Accept on a Completed task was answered
\* InvalidTransition.
C1_Witness ==
    /\ resp.op = "acceptTask" /\ resp.kind = "InvalidTransition"
    /\ \E id \in 1..Len(tasks) : tasks[id].status = "Completed"

\* C5: of two workflow calls in flight on one task that passed the same state
\* guard (two Accepts, or an approve and a revert), at most one reports
\* success.
C5_AtMostOneSucceeds ==
    \A c1, c2 \in Handlers :
        ~(/\ c1 # c2
          /\ tcalls[c1].pc = "done" /\ tcalls[c1].code = 200
          /\ tcalls[c2].pc = "done" /\ tcalls[c2].code = 200
          /\ tcalls[c1].op = tcalls[c2].op
          /\ tcalls[c1].id = tcalls[c2].id
          /\ tcalls[c1].pre = tcalls[c2].pre
          /\ tcalls[c2].staleBy = c1)

\* C16: Accept and SubmitForReview by a caller who is not among the task's
\* assignees are answered Forbidden and leave the task unchanged, in every
\* status; a successful Accept or SubmitForReview was called by an assignee.
C16_OnlyAssigneesDrive ==
    [][\A id \in 1..Len(tasks), u \in Users :
          /\ acceptTask(id, u) =>
                /\ u \notin Range(tasks[id].assignedTo)
                      => (resp'.kind = "Forbidden" /\ tasks' = tasks)
                /\ resp'.code = 200 => u \in Range(tasks[id].assignedTo)
          /\ submitTaskForReview(id, u) =>
                /\ u \notin Range(tasks[id].assignedTo)
                      => (resp'.kind = "Forbidden" /\ tasks' = tasks)
                /\ resp'.code = 200 => u \in Range(tasks[id].assignedTo)]_vars

\* C16 witness: a SubmitForReview on a task In Progress was answered Forbidden.
C16_Witness ==
    /\ resp.op = "submitTaskForReview" /\ resp.kind = "Forbidden"
    /\ \E id \in 1..Len(tasks) : tasks[id].status = "In Progress"

\* C17: a Review(approve) or Review(revert) of a task In Review succeeds when
\* the caller is the task's creator or one of its reviewers, whatever the
\* caller's role, and is answered Forbidden, changing nothing, otherwise.
C17_CreatorOrReviewerResolves ==
    [][\A id \in 1..Len(tasks), u \in Users, a \in {"approve", "revert"},
         m \in Comments :
          (reviewTask(id, u, a, m) /\ tasks[id].status = "In Review") =>
              IF tasks[id].createdBy = u \/ u \in Range(tasks[id].reviewers)
              THEN resp'.code = 200 /\ tasks'[id].status = ReviewTarget(a)
              ELSE resp'.kind = "Forbidden" /\ tasks' = tasks]_vars

\* C18: Update and Delete by a caller other than the task's creator are
\* answered Forbidden and neither modify nor remove the task; a successful
\* Update or Delete was called by the creator.
C18_OnlyCreatorEditsOrDeletes ==
    [][\A id \in 1..Len(tasks), u \in Users :
          ~tasks[id].deleted =>
              /\ \A body \in TaskBodies :
                    updateTask(id, u, body) =>
                        /\ u # tasks[id].createdBy
                              => (resp'.kind = "Forbidden" /\ tasks' = tasks)
                        /\ resp'.code = 200 => u = tasks[id].createdBy
              /\ deleteTask(id, u) =>
                    /\ u # tasks[id].createdBy
                          => (resp'.kind = "Forbidden" /\ tasks' = tasks)
                    /\ resp'.code = 200 => u = tasks[id].createdBy]_vars

\* C18 witness: a Delete was answered Forbidden on a task that has a reviewer
\* other than its creator, and the task is still there.
C18_Witness ==
    /\ resp.op = "deleteTask" /\ resp.kind = "Forbidden"
    /\ \E id \in 1..Len(tasks) :
          ~tasks[id].deleted /\ Len(tasks[id].reviewers) > 1

\* C19: a successful Update, whatever its body, leaves the task's status and
\* progress status as they were.
C19_UpdateKeepsStatus ==
    [][\A id \in 1..Len(tasks), u \in Users, body \in TaskBodies :
          (updateTask(id, u, body) /\ resp'.code = 200) =>
              /\ tasks'[id].status = tasks[id].status
              /\ tasks'[id].progressStatus = tasks[id].progressStatus]_vars

\* C20: whatever happened to a task before, an Accept by one of its assignees
\* while it is Reverted succeeds and sets In Progress.
C20_RevertedIsAcceptable ==
    [][\A id \in 1..Len(tasks), u \in Users :
          (/\ acceptTask(id, u)
           /\ tasks[id].status = "Reverted"
           /\ u \in Range(tasks[id].assignedTo))
              => (resp'.code = 200 /\ tasks'[id].status = "In Progress")]_vars

\* C20 witness: a task that was reverted with a comment has been accepted
\* again and is In Progress.
C20_Witness ==
    /\ resp.op = "acceptTask" /\ resp.code = 200
    /\ \E id \in 1..Len(tasks) :
          tasks[id].status = "In Progress" /\ tasks[id].notes # <<>>

\* C22: whatever Create, Update, Accept, SubmitForReview and Review do, a
\* stored task keeps the createdBy it was created with, its reviewers contain
\* its createdBy, and its assignees are not empty.
C22_OwnerIsFixed ==
    [][\A id \in 1..Len(tasks') :
          ~tasks'[id].deleted =>
              /\ tasks'[id].createdBy \in Range(tasks'[id].reviewers)
              /\ tasks'[id].assignedTo # <<>>
              /\ id <= Len(tasks) => tasks'[id].createdBy = tasks[id].createdBy]_vars

\* C23: no two stored tasks have the same taskId, whatever the interleaving
\* of the Create calls.
C23_TaskIdUnique ==
    \A i, j \in 1..Len(tasks) : tasks[i].taskId = tasks[j].taskId => i = j

\* C23 witness: two Create calls drew the same candidate, both found it
\* free, one stored its task and the other was refused by the unique index.
C23_Witness ==
    \E c1, c2 \in Handlers :
        /\ tcalls[c1].op = "addTask" /\ tcalls[c1].pc = "done"
        /\ tcalls[c2].op = "addTask" /\ tcalls[c2].pc = "done"
        /\ tcalls[c1].code = 201 /\ tcalls[c2].code = 500
        /\ tcalls[c1].id = tcalls[c2].id
        /\ Len(tasks) = 1

\* the receivers of the notification records of a list
Receivers(q) == [k \in 1..Len(q) |-> q[k].receiverId]

\* C24: every successful PunchIn, PunchOut and MarkManual stores one
\* notification record for each intended receiver, whether or not the live
\* channel object exists.
C24_PersistedWithoutChannel ==
    [][/\ (resp'.op = "createAttendance" /\ resp'.code = 201 /\ att' # att)
            => Receivers(sent') = Supervisors
       /\ (resp'.op = "logoutAttendance" /\ resp'.code = 200 /\ att' # att)
            => Receivers(sent') = Supervisors
       /\ (resp'.op = "markAttendance" /\ resp'.code = 200 /\ att' # att)
            => Len(sent') = 1]_vars

\* the receivers whose Notification.create does not throw
Surviving(q) == SelectSeq(q, LAMBDA x : x \notin down)

C26_NoFanOutWithoutCommit ==
    [][(resp'.code = 500 /\ tasks' = tasks) => sent' = <<>>]_vars

\* the number of times x occurs in the list q
Occurrences(q, x) == Cardinality({i \in 1..Len(q) : q[i] = x})

\* C21: Create by a caller whose role is not admin or manager is answered
\* Forbidden and stores nothing; by an admin or manager with an empty assignee
\* list it is answered with a validation failure and stores nothing;
\* otherwise it stores one task with status Not Started whose reviewers are
\* the creator and the additional reviewers, the creator occurring once.
C21_CreateContract ==
    [][\A u \in Users, a \in AssigneeLists, r \in AdditionalReviewerLists,
         n \in BOOLEAN :
          (resp'.op = "addTask" /\ addTask(u, a, r, n)) =>
              LET allowed == UserRole[u] \in {"admin", "manager"}
                  t == tasks'[Len(tasks')]
              IN  /\ ~allowed => (resp'.kind = "Forbidden" /\ tasks' = tasks)
                  /\ (allowed /\ a = <<>>)
                        => (resp'.kind = "ValidationError" /\ tasks' = tasks)
                  /\ (resp'.code = 201) = (allowed /\ a # <<>>)
                  /\ resp'.code = 201 =>
                        /\ Len(tasks') = Len(tasks) + 1
                        /\ \A i \in 1..Len(tasks) : tasks'[i] = tasks[i]
                        /\ t.status = "Not Started"
                        /\ t.createdBy = u
                        /\ t.assignedTo = a
                        /\ Range(t.reviewers) = {u} \cup Range(r)
                        /\ Occurrences(t.reviewers, u) = 1]_vars

\* C21 witness: the manager created a task naming itself among the additional
\* reviewers; the stored reviewers are the manager, once, and the other one.
C21_Witness ==
    /\ resp.op = "addTask" /\ resp.code = 201
    /\ \E id \in 1..Len(tasks) :
          /\ tasks[id].createdBy = "u2"
          /\ tasks[id].reviewers = <<"u2", "u4">>
          /\ tasks[id].status = "Not Started"

\* the progress-status value that stands for a status
Mirror(status) == IF status = "In Progress" THEN "Pending" ELSE status

\* C6 (as amended): after creation and any sequence of Accept,
\* SubmitForReview and Review, progressStatus is the mirror of status: the
\* same value, except that status In Progress is mirrored as Pending.
C6_ProgressMirrorsStatus ==
    \A id \in 1..Len(tasks) : tasks[id].progressStatus = Mirror(tasks[id].status)

\* C6 witness: an accepted task, In Progress with progress status Pending.
C6_Witness ==
    \E id \in 1..Len(tasks) :
        /\ tasks[id].status = "In Progress"
        /\ tasks[id].progressStatus = "Pending"
        /\ resp.op = "acceptTask" /\ resp.code = 200

\* C6 (as claimed): status and progressStatus always hold the same value.
C6_ProgressEqualsStatus ==
    \A id \in 1..Len(tasks) : tasks[id].progressStatus = tasks[id].status

\* C27: a successful Accept or SubmitForReview creates exactly one record for
\* each distinct member of the creator and the reviewers and none for anybody
\* else; a successful Review creates exactly one record for each assignee and
\* none for anybody else.
C27_OneRecordPerParty ==
    [][/\ (resp'.op \in {"acceptTask", "submitTaskForReview"}
              /\ resp'.code = 200 /\ tasks' # tasks)
            => \E id \in 1..Len(tasks) :
                  /\ tasks'[id] # tasks[id]
                  /\ \A u \in Users :
                        Occurrences(Receivers(sent'), u) =
                            IF u = tasks[id].createdBy
                                  \/ u \in Range(tasks[id].reviewers)
                            THEN 1 ELSE 0
       /\ (resp'.op = "reviewTask" /\ resp'.code = 200 /\ tasks' # tasks)
            => \E id \in 1..Len(tasks) :
                  /\ tasks'[id] # tasks[id]
                  /\ \A u \in Users :
                        Occurrences(Receivers(sent'), u) =
                            IF u \in Range(tasks[id].assignedTo)
                            THEN 1 ELSE 0]_vars

\* the records of a list with the given title
Titled(q, title) == SelectSeq(q, LAMBDA x : x.title = title)

\* C28: a successful Create creates one record "New Task Assigned" for each
\* assignee if the notify flag is set and none otherwise, and, whatever the
\* flag, one record "New Task Created in System" for every admin other than
\* the creator, and no other record.
C28_CreateNotifies ==
    [][\A u \in Users, a \in AssigneeLists, r \in ReviewerLists, n \in BOOLEAN :
          (resp'.op = "addTask" /\ resp'.code = 201 /\ addTask(u, a, r, n))
            => /\ Receivers(Titled(sent', "New Task Assigned")) =
                     (IF n THEN a ELSE <<>>)
               /\ Receivers(Titled(sent', "New Task Created in System")) =
                     SelectSeq(Admins, LAMBDA x : x # u)
               /\ Len(sent') = Len(Titled(sent', "New Task Assigned"))
                     + Len(Titled(sent', "New Task Created in System"))]_vars

\* C28 witness: a manager has created a task with the notify flag off, and
\* the only record is the one of the admin.
C28_Witness ==
    /\ resp.op = "addTask" /\ resp.code = 201
    /\ Len(tasks) >= 1 /\ tasks[Len(tasks)].createdBy = "u2"
    /\ Len(sent) = 1
    /\ sent[1].receiverId = "u1"
    /\ sent[1].title = "New Task Created in System"

\* C28 (as claimed): whatever the flag, a successful Create creates one
\* record for every user holding the admin role.
C28_CreateNotifiesEveryAdmin ==
    [][(resp'.op = "addTask" /\ resp'.code = 201 /\ tasks' # tasks)
          => Receivers(Titled(sent', "New Task Created in System")) = Admins]_vars

\* C29: NotifyOne with a valid receiver id persists exactly one record, for
\* that receiver, unread and not deleted, and returns; with any other
\* receiver id it fails with InvalidReceiver and persists nothing.
C29_NotifyOne ==
    fnOut.fn = "notifyUser" =>
        IF fnArg.receiverId \in ObjectIds
        THEN /\ fnOut.val = NullStr
             /\ Len(sent) = 1
             /\ sent[1].receiverId = fnArg.receiverId
             /\ sent[1].isRead = FALSE /\ sent[1].isDeleted = FALSE
        ELSE /\ fnOut.val = "InvalidReceiver"
             /\ sent = <<>>

\* C29 witness: NotifyOne with a malformed receiver id has failed with
\* InvalidReceiver and persisted nothing.
C29_Witness ==
    /\ fnOut.fn = "notifyUser"
    /\ fnArg.receiverId = "bad"
    /\ fnOut.val = "InvalidReceiver"
    /\ sent = <<>>

\* C30: NotifyMany persists one record for each valid entry of the request,
\* in order, and none for the others; it fails with NoValidReceivers,
\* persisting nothing, exactly when no entry is valid.
C30_NotifyMany ==
    fnOut.fn = "notifyManyUsers" =>
        LET valid == SelectSeq(fnArg.receiverIds, LAMBDA id : id \in ObjectIds)
        IN  /\ Receivers(sent) = valid
            /\ \A k \in 1..Len(sent) : ~sent[k].isRead /\ ~sent[k].isDeleted
            /\ fnOut.val = (IF valid = <<>> THEN "NoValidReceivers" ELSE NullStr)

\* C30 witness: NotifyMany with a valid and an invalid id has returned and
\* persisted exactly the record of the valid one.
C30_Witness ==
    /\ fnOut.fn = "notifyManyUsers"
    /\ fnArg.receiverIds = <<"u1", "bad">>
    /\ fnOut.val = NullStr
    /\ Receivers(sent) = <<"u1">>

\* C31: MarkRead(receiverId, notificationId) sets isRead and readAt on the
\* identified record, and on nothing else, when that record belongs to the
\* receiver and is not soft-deleted; otherwise it answers NotFound and the
\* collection is unchanged.
C31_MarkRead ==
    [][\A u \in InboxUsers, id \in 1..(MaxNotifs + 1) :
          (resp'.op = "markAsRead" /\ markAsRead(u, id))
            => IF /\ id \in 1..Len(notifications)
                  /\ notifications[id].receiverId = u
                  /\ ~notifications[id].isDeleted
               THEN /\ resp'.code = 200
                    /\ notifications' =
                          [notifications EXCEPT ![id].isRead = TRUE,
                                                ![id].readAt = clock]
               ELSE /\ resp'.kind = "NotFound"
                    /\ notifications' = notifications]_vars

\* C31 witness: a MarkRead has succeeded on the record of one receiver while
\* the record of another receiver is still unread.
C31_Witness ==
    /\ resp.op = "markAsRead" /\ resp.code = 200
    /\ \E i, j \in 1..Len(notifications) :
          /\ notifications[i].isRead
          /\ notifications[j].receiverId # notifications[i].receiverId
          /\ ~notifications[j].isRead

\* C32: MarkAllRead(receiverId) succeeds, sets isRead and readAt on exactly
\* the unread, non-deleted records of that receiver and leaves every other
\* record as it was.
C32_MarkAllRead ==
    [][\A u \in InboxUsers :
          (resp'.op = "markAllAsRead" /\ markAllAsRead(u))
            => /\ resp'.code = 200
               /\ Len(notifications') = Len(notifications)
               /\ \A i \in 1..Len(notifications) :
                     notifications'[i] =
                        IF /\ notifications[i].receiverId = u
                           /\ ~notifications[i].isRead
                           /\ ~notifications[i].isDeleted
                        THEN [notifications[i] EXCEPT !.isRead = TRUE,
                                                      !.readAt = clock]
                        ELSE notifications[i]]_vars

\* C32 witness: after a MarkAllRead a record read earlier keeps its readAt,
\* a soft-deleted unread record is still unread, and a record has been read
\* by the call.
C32_Witness ==
    /\ resp.op = "markAllAsRead" /\ resp.code = 200
    /\ clock = 2
    /\ \E i, j \in 1..Len(notifications) :
          /\ notifications[i].isRead /\ notifications[i].readAt = 2
          /\ \/ notifications[j].isRead /\ notifications[j].readAt = 1
             \/ notifications[j].isDeleted /\ ~notifications[j].isRead
             \/ (notifications[j].receiverId # notifications[i].receiverId
                   /\ ~notifications[j].isRead)

\* C33: SoftDelete(receiverId, notificationId) answers NotFound exactly when
\* no record with that id is owned by the receiver and not yet soft-deleted
\* (a second SoftDelete of the same record included); otherwise it sets
\* isDeleted on that record only.
C33_SoftDelete ==
    [][\A u \in InboxUsers, id \in 1..(MaxNotifs + 1) :
          (resp'.op = "deleteNotification" /\ deleteNotification(u, id))
            => IF /\ id \in 1..Len(notifications)
                  /\ notifications[id].receiverId = u
                  /\ ~notifications[id].isDeleted
               THEN /\ resp'.code = 200
                    /\ notifications' =
                          [notifications EXCEPT ![id].isDeleted = TRUE]
               ELSE /\ resp'.kind = "NotFound"
                    /\ notifications' = notifications]_vars

\* C34: no step removes a notification record, turns isRead or isDeleted
\* from true to false, or changes a record's receiverId or title; and
\* ListForReceiver returns only non-deleted records of the calling receiver.
C34_Lifecycle ==
    [][/\ Len(notifications') >= Len(notifications)
       /\ \A i \in 1..Len(notifications) :
             /\ notifications'[i].receiverId = notifications[i].receiverId
             /\ notifications'[i].title = notifications[i].title
             /\ notifications[i].isRead => notifications'[i].isRead
             /\ notifications[i].isDeleted => notifications'[i].isDeleted
       /\ \A u \in InboxUsers, isRead \in {Unset, "false"}, pg \in Pagings :
             (resp'.op = "getMyNotifications"
                /\ getMyNotifications(u, isRead, pg[1], pg[2]))
               => \A k \in 1..Len(resp'.data) :
                     /\ resp'.data[k].receiverId = u
                     /\ ~resp'.data[k].isDeleted]_vars

\* C34 witness: a receiver with a soft-deleted record and a live one has
\* listed their notifications and got the live one only.
C34_Witness ==
    /\ resp.op = "getMyNotifications"
    /\ Len(resp.data) = 1
    /\ \E i, j \in 1..Len(notifications) :
          /\ notifications[i].receiverId = resp.data[1].receiverId
          /\ notifications[i].isDeleted
          /\ notifications[j] = resp.data[1]

\* C35: a PunchIn without employeeId or name, and a MarkManual without name
\* or with a status other than Absent and Leave, are answered
\* ValidationError and leave the attendance records as they were.
C35_MalformedRejected ==
    [][/\ \A employeeId \in AttEmployees \cup {Unset}, name \in {"name", Unset} :
             (/\ resp'.op = "createAttendance"
              /\ employeeId = Unset \/ name = Unset
              /\ createAttendanceReq(employeeId, name))
               => resp'.kind = "ValidationError" /\ att' = att
       /\ \A e \in AttEmployees, name \in {"name", Unset}, st \in RawStatuses :
             (/\ resp'.op = "markAttendance"
              /\ name = Unset \/ st \notin {"Absent", "Leave"}
              /\ markAttendanceReq("u1", e, name, Today, st))
               => /\ resp'.code = 400
                  /\ att' = att]_vars

\* C36: a record that a PunchOut has closed (its punch-out is set and is not
\* the sweep's 06:01:00 PM) is never given the sweep's punch-out or status by
\* a later step, whatever the interleaving of the sweep with PunchOut.
C36_SweepKeepsPunchOut ==
    [][\A i \in 1..Len(att) :
          att[i].punch_out \notin {NoTime, CutoffTime}
            => /\ att'[i].punch_out # CutoffTime
               /\ att'[i].status = "Auto Punch Out"
                     => att[i].status = "Auto Punch Out"]_vars

\* C37: in every reachable state an attendance record without a punch-in has
\* no punch-out and no working duration.
C37_NoPunchInNoPunchOut ==
    \A i \in 1..Len(att) :
        att[i].punch_in = NoTime
            => att[i].punch_out = NoTime /\ att[i].workingHours = NullStr

\* C38: a PunchIn call that has answered either created its record (201) or
\* reports Conflict (400), also when it lost a race for its (employeeId,
\* date) at the unique index; it never answers with the generic 500.
C38_RaceLoserGetsConflict ==
    \A c \in Handlers :
        (calls[c].op = "createAttendance" /\ calls[c].pc = "done")
            => calls[c].code \in {201, 400}

\* C39: in every status of the task, Accept and SubmitForReview by a caller
\* who is not an assignee, and Review by a caller who is neither the creator
\* nor a reviewer, are answered Forbidden; InvalidTransition is answered only
\* to an assignee (Accept, SubmitForReview) or to the creator or a reviewer
\* (Review).
C39_ForbiddenBeforeStateGuard ==
    [][\A id \in 1..Len(tasks), u \in Users :
          /\ (resp'.op = "acceptTask" /\ acceptTask(id, u)) =>
                /\ u \notin Range(tasks[id].assignedTo) => resp'.kind = "Forbidden"
                /\ resp'.kind = "InvalidTransition"
                      => u \in Range(tasks[id].assignedTo)
          /\ (resp'.op = "submitTaskForReview" /\ submitTaskForReview(id, u)) =>
                /\ u \notin Range(tasks[id].assignedTo) => resp'.kind = "Forbidden"
                /\ resp'.kind = "InvalidTransition"
                      => u \in Range(tasks[id].assignedTo)
          /\ \A a \in {"approve", "revert"}, m \in Comments :
                (resp'.op = "reviewTask" /\ reviewTask(id, u, a, m)) =>
                    /\ (tasks[id].createdBy # u /\ u \notin Range(tasks[id].reviewers))
                          => resp'.kind = "Forbidden"
                    /\ resp'.kind = "InvalidTransition"
                          => (tasks[id].createdBy = u
                                \/ u \in Range(tasks[id].reviewers))]_vars

\* C40: under fair choice of suffixes every call of generateTaskId that is in
\* its retry loop returns, and the id it returns was the id of no task when
\* it was looked up.
C40_GenerateTerminates ==
    /\ \A c \in Handlers :
          (tcalls[c].pc = "generate") ~> (tcalls[c].pc = "returned")
    /\ [][\A c \in Handlers :
             (tcalls[c].pc = "generate" /\ tcalls'[c].pc = "returned")
                => FreeTaskId(tcalls'[c].id)]_vars

\* C40 witness: a call has returned an id while a task with another id is
\* stored, so that a colliding draw was possible.
C40_Witness ==
    \E c \in Handlers :
        /\ tcalls[c].op = "generateTaskId" /\ tcalls[c].pc = "returned"
        /\ Len(tasks) >= 1
        /\ \A i \in 1..Len(tasks) : tasks[i].taskId # tcalls[c].id
====
